---- MODULE Spec2Model ----
(***************************************************************************)
(* Model of the MCP client of syuchua/mcp-demo: the orchestration engine   *)
(* (src/src/clients/mcp_client.py), the interactive connect/quit commands  *)
(* (src/src/clients/commands.py) and the connection layer it drives        *)
(* (src/src/connectors).                                                   *)
(*                                                                         *)
(* Text is a sequence of tokens (strings).  The tokens " " and "\n" are    *)
(* whitespace; the token "!use_server:" is the literal directive prefix;   *)
(* every other token is a run of non-whitespace characters.                *)
(***************************************************************************)
EXTENDS Integers, Sequences, FiniteSets, TLC

\* ------------------------------------------------------------- bounds
\* connection objects the client may create in one run
MaxConns == 2
\* tool calls in one reply of the model
MaxCalls == 2
\* tool-listing queries sent to the session of one connection
MaxListQueries == 2

\* ------------------------------------------------------------- roster
\* find_server_instances: the configured instances, in configuration order
Servers == <<"weather", "maps", "shell">>

ServerSet == {Servers[i] : i \in 1..Len(Servers)}

\* the "type" field of each configured instance: one instance of each of
\* the types create_server_connection supports
ServerType(s) ==
  IF s = "weather" THEN "stdio" ELSE IF s = "maps" THEN "sse" ELSE "command"

\* config['servers']['default']
DefaultServer == "weather"

\* Python's None
None == "None"

\* ------------------------------------------------------------- text
Directive == "!use_server:"

IsSpace(t) == t \in {" ", "\n"}

\* str + str
RECURSIVE ConcatAll(_)
ConcatAll(toks) ==
  IF toks = <<>> THEN "" ELSE Head(toks) \o ConcatAll(Tail(toks))

\* length of the maximal run of non-whitespace tokens of text from position i
RECURSIVE RunLen(_, _)
RunLen(text, i) ==
  IF i > Len(text) \/ IsSpace(text[i]) THEN 0 ELSE 1 + RunLen(text, i + 1)

\* length of the maximal run of whitespace tokens of text from position i
RECURSIVE SpaceLen(_, _)
SpaceLen(text, i) ==
  IF i > Len(text) \/ ~IsSpace(text[i]) THEN 0 ELSE 1 + SpaceLen(text, i + 1)

\* re.search(r'!use_server:([^\s]+)', content): position of the leftmost
\* directive that is followed by at least one non-whitespace character, or 0
RECURSIVE SearchFrom(_, _)
SearchFrom(text, i) ==
  IF i > Len(text) THEN 0
  ELSE IF text[i] = Directive /\ RunLen(text, i + 1) > 0 THEN i
  ELSE SearchFrom(text, i + 1)

server_match(content) == SearchFrom(content, 1)

\* server_match.group(1)
group1(content) ==
  LET i == server_match(content)
  IN  ConcatAll(SubSeq(content, i + 1, i + RunLen(content, i + 1)))

\* re.sub(r'!use_server:[^\s]+\s*', '', content)
RECURSIVE SubFrom(_, _)
SubFrom(text, i) ==
  IF i > Len(text) THEN <<>>
  ELSE IF text[i] = Directive /\ RunLen(text, i + 1) > 0
       THEN LET j == i + 1 + RunLen(text, i + 1)
            IN  SubFrom(text, j + SpaceLen(text, j))
  ELSE <<text[i]>> \o SubFrom(text, i + 1)

strip_directive(content) == SubFrom(content, 1)

\* "\n".join(filter(None, final_text))
RECURSIVE JoinNonEmpty(_)
JoinNonEmpty(frags) ==
  IF frags = <<>> THEN <<>>
  ELSE IF Head(frags) = <<>> THEN JoinNonEmpty(Tail(frags))
  ELSE LET rest == JoinNonEmpty(Tail(frags))
       IN  IF rest = <<>> THEN Head(frags) ELSE Head(frags) \o <<"\n">> \o rest

\* the literal directive occurs in a text
HasDirective(text) == \E i \in 1..Len(text) : text[i] = Directive

\* ------------------------------------------------------------- state
VARIABLES
  connection,      \* MCPClient.connection: index into conns, or 0 for None
  current_server,  \* MCPClient.current_server
  exit_stack,      \* MCPClient.exit_stack: index into stacks
  stacks,          \* the AsyncExitStacks created so far: entries <<conn, resource>>
  conns,           \* the ServerConnection objects created so far
  closed,          \* the contexts exited so far, in order: entries <<conn, resource>>
  pc,              \* position of the single task (CLI loop / process_query)
  server_name,     \* process_query: the server chosen for the query
  query_messages,  \* process_query: the conversation of the tool round
  final_text,      \* process_query: collected text fragments
  tool_calls,      \* process_query: tool calls of the tool-round reply
  idx,             \* process_query: index of the next tool call of the loop
  available_tools, \* process_query: tool definitions attached to the tool round
  requests,        \* provider requests sent by the current query, in order
  dispatched,      \* call_tool invocations of the current query, in order
  ret,             \* what the last handler returned or printed
  selected_model,  \* config['models']['selected']
  base_url,        \* config['api']['base_url']
  provider,        \* the provider LLMFactory.get_providerfor_model returned
  session_tools,   \* what the MCP session of a connection lists: [type, tools]
  listed_tools,    \* the Tool descriptors connection.list_tools() returned
  payload_tools,   \* the tool entries of the payload the adapter posts
  payload_messages,\* the system field and the messages of that payload
  vendor_response, \* response.json() of the vendor's reply
  completion,      \* what the adapter's generate_completion returned
  config,          \* config['servers']: instances, directory, default
  servers          \* MCPClient.servers: the roster, in insertion order

clientVars == <<connection, current_server, exit_stack, stacks, conns, closed>>
queryVars == <<server_name, query_messages, final_text, tool_calls, idx,
               available_tools, requests, dispatched>>
vars == <<connection, current_server, exit_stack, stacks, conns, closed, pc,
          server_name, query_messages, final_text, tool_calls, idx,
          available_tools, requests, dispatched, ret,
          selected_model, base_url, provider,
          session_tools, listed_tools, payload_tools,
          payload_messages, vendor_response, completion, config, servers>>
schemaVars == <<session_tools, listed_tools, payload_tools>>
adapterVars == <<payload_messages, vendor_response, completion>>
rosterVars == <<config, servers>>
providerVars ==
  <<selected_model, base_url, provider, schemaVars, adapterVars, rosterVars>>

\* ------------------------------------------------------------- connections
\* ServerConnection.__init__: no transport, no session
NewConnection(s, stack) ==
  [server |-> s, stack |-> stack, transport |-> "none",
   session |-> FALSE, handshaken |-> FALSE, tools_cache |-> "none",
   list_queries |-> 0]

\* the lifecycle state of a connection object
ConnState(c) ==
  IF c.transport # "open" THEN "Disconnected"
  ELSE IF c.handshaken THEN "Connected"
  ELSE "Connecting"

Live(c) == c.transport = "open"

LiveConns == {i \in 1..Len(conns) : Live(conns[i])}

\* the client context connect() enters for its transport: the stdio and the
\* command connection start the server as a child process and talk to it
\* over its standard input and output, the SSE connection opens an HTTP
\* stream
transport_client(type) == IF type = "sse" THEN "sse_client" ELSE "stdio_client"

\* outcomes of ServerConnection.connect(); ok_default is the SSE connection
\* whose tool discovery failed inside connect() and fell back to the defaults
ConnectOutcomes(type) ==
  {"ok", "fail_config", "fail_transport", "fail_session", "fail_handshake"}
    \cup (IF type = "sse" THEN {"ok_default"} ELSE {})

ConnectOk(outcome) == outcome \in {"ok", "ok_default"}

\* StdioConnection/SSEConnection/CommandConnection.connect on connection c
\* whose exit stack is stk: the connection and the stack afterwards.
\*   fail_config:    raised before any resource is opened
\*   fail_transport: enter_async_context(stdio_client/sse_client) raised
\*   fail_session:   enter_async_context(ClientSession(...)) raised; the
\*                   transport was entered on the exit stack
\*   fail_handshake: session.initialize() raised; transport and session were
\*                   entered on the exit stack and self.session is assigned
connect(c, id, stk, outcome) ==
  IF outcome \in {"fail_config", "fail_transport"}
  THEN [conn |-> c, stk |-> stk, raised |-> TRUE]
  ELSE IF outcome = "fail_session"
  THEN [conn |-> [c EXCEPT !.transport = "open"],
        stk |-> Append(stk, <<id, "transport">>), raised |-> TRUE]
  ELSE [conn |-> [c EXCEPT !.transport = "open", !.session = TRUE,
                           !.handshaken = ConnectOk(outcome),
                           !.tools_cache =
                              IF ServerType(c.server) # "sse" \/ ~ConnectOk(outcome)
                              THEN "none"
                              ELSE IF outcome = "ok" THEN "listed" ELSE "default",
                           !.list_queries =
                              IF ServerType(c.server) = "sse" /\ ConnectOk(outcome)
                              THEN 1 ELSE 0],
        stk |-> stk \o << <<id, "transport">>, <<id, "session">> >>,
        raised |-> ~ConnectOk(outcome)]

\* the callbacks of an exit stack run last-in, first-out
RECURSIVE Reverse(_)
Reverse(s) == IF s = <<>> THEN <<>> ELSE Append(Reverse(Tail(s)), Head(s))

\* the connections after the contexts of stk were exited: the transports of
\* all connections entered on it are closed
exit_contexts(cs, stk) ==
  [i \in 1..Len(cs) |->
     IF \E k \in 1..Len(stk) : stk[k] = <<i, "transport">>
     THEN [cs[i] EXCEPT !.transport = "closed", !.handshaken = FALSE]
     ELSE cs[i]]

\* variant: the stack keeps its callbacks after they ran
aclose_keep(st, k) ==
  [st EXCEPT !.conns = exit_contexts(st.conns, st.stacks[k]),
             !.closed = st.closed \o Reverse(st.stacks[k])]

\* AsyncExitStack.aclose() on stack k of client state st: every context
\* entered on the stack is popped and exited, the last entered first
aclose(st, k) ==
  [st EXCEPT !.conns = exit_contexts(st.conns, st.stacks[k]),
             !.stacks[k] = <<>>,
             !.closed = st.closed \o Reverse(st.stacks[k])]

ClientState ==
  [connection |-> connection, current_server |-> current_server,
   exit_stack |-> exit_stack, stacks |-> stacks, conns |-> conns,
   closed |-> closed, raised |-> FALSE, error |-> <<>>]

SetClient(st) ==
  /\ connection' = st.connection
  /\ current_server' = st.current_server
  /\ exit_stack' = st.exit_stack
  /\ stacks' = st.stacks
  /\ conns' = st.conns
  /\ closed' = st.closed

\* ------------------------------------------------------------- JSON values
\* A JSON value is a dict (its items in insertion order), a list (its
\* elements) or a scalar.
Dict(items) == [kind |-> "dict", of |-> items]
List(elems) == [kind |-> "list", of |-> elems]
Scalar(v) == [kind |-> "scalar", of |-> <<v>>]
Item(key, value) == [key |-> key, value |-> value]

\* isinstance(v, dict), isinstance(v, list)
isinstance_dict(v) == v.kind = "dict"
isinstance_list(v) == v.kind = "list"

\* key in d
has_key(d, key) == \E i \in 1..Len(d.of) : d.of[i].key = key

\* d[key]
get(d, key) == d.of[CHOOSE i \in 1..Len(d.of) : d.of[i].key = key].value

\* {"type": "object", "properties": schema, "required": []}
object_schema(schema) ==
  Dict(<< Item("type", Scalar("object")), Item("properties", schema),
          Item("required", List(<<>>)) >>)

\* {"type": "object", "properties": {name: {"type": "string"}}}
string_params(name) ==
  Dict(<< Item("type", Scalar("object")),
          Item("properties",
               Dict(<< Item(name, Dict(<< Item("type", Scalar("string")) >>)) >>)) >>)

\* ------------------------------------------------------------- tools
\* A description is a run of body characters supplied by the server followed
\* by marker characters of the ellipsis "...".
Text(n) == [body |-> n, marker |-> 0]

\* len(description)
DescLen(d) == d.body + d.marker

Min(a, b) == IF a < b THEN a ELSE b

\* description[:k]
Slice(d, k) ==
  [body |-> Min(d.body, k), marker |-> Min(d.marker, k - Min(d.body, k))]

\* description + "..."
AddEllipsis(d) == [d EXCEPT !.marker = @ + 3]

\* the length above which StdioConnection.list_tools truncates a description
DescriptionCap == 1000

\* tools the weather script serves (session.list_tools of the stdio server)
StdioTools ==
  << [name |-> "get_forecast", description |-> Text(1001),
      inputSchema |-> string_params("city")],
     [name |-> "get_alerts", description |-> Text(1000),
      inputSchema |-> Dict(<< Item("state", Scalar("string")) >>)] >>

\* tools the remote maps endpoint serves (session.list_tools of the sse server)
SseTools ==
  << [name |-> "maps_geo", description |-> Text(1200),
      inputSchema |-> Dict(<< Item("address", Scalar("string")) >>)] >>

\* tools the spawned command serves (session.list_tools of the command server)
CommandTools ==
  << [name |-> "run", description |-> Text(1001),
      inputSchema |-> string_params("line")] >>

\* what the session of a server of the given type lists
ServedTools(type) ==
  IF type = "stdio" THEN StdioTools
  ELSE IF type = "sse" THEN SseTools
  ELSE CommandTools

\* SSEConnection._get_default_tools
default_tools ==
  << [name |-> "geocode", description |-> Text(20),
      inputSchema |-> string_params("address")],
     [name |-> "weather", description |-> Text(18),
      inputSchema |-> string_params("city")] >>

\* outcomes of session.list_tools() on a stdio connection
ListOutcomes == {"ok", "empty", "fail"}

\* the tool list an SSE connection holds in tools_cache
cached_tools(cache) ==
  IF cache = "listed" THEN SseTools
  ELSE IF cache = "default" THEN default_tools
  ELSE <<>>

\* StdioConnection.list_tools: the schema of one listed tool; a value that
\* is no dict becomes {}, and a schema without "type" is wrapped
stdio_schema(inputSchema) ==
  LET schema == IF isinstance_dict(inputSchema) THEN inputSchema ELSE Dict(<<>>)
  IN  IF has_key(schema, "type") THEN schema ELSE object_schema(schema)

\* StdioConnection.list_tools: the Tool built from one listed tool; a
\* description longer than the cap is cut to 997 characters plus the
\* ellipsis
stdio_tool(tool) ==
  [name |-> tool.name,
   description |-> IF DescLen(tool.description) > DescriptionCap
                   THEN AddEllipsis(Slice(tool.description, 997))
                   ELSE tool.description,
   inputSchema |-> stdio_schema(tool.inputSchema)]

\* the Tool descriptors list_tools builds from what the session lists: the
\* stdio connection converts each tool, the other connections copy the
\* fields
connection_tools(type, served) ==
  IF type = "stdio" THEN [i \in 1..Len(served) |-> stdio_tool(served[i])]
  ELSE served

\* variant: the SSE connection lets a failed tool-listing query propagate
list_tools_sse_raises(c, lo) ==
  IF ~c.session
  THEN [raised |-> TRUE, tools |-> <<>>, cache |-> c.tools_cache, queried |-> FALSE]
  ELSE IF ServerType(c.server) = "sse" /\ (c.tools_cache # "none" \/ lo # "fail")
  THEN LET cache == IF c.tools_cache # "none" THEN c.tools_cache
                    ELSE IF lo = "ok" THEN "listed" ELSE "empty"
       IN  [raised |-> FALSE, tools |-> cached_tools(cache), cache |-> cache,
            queried |-> c.tools_cache = "none"]
  ELSE [raised |-> lo = "fail",
        tools |-> IF lo # "ok" THEN <<>> ELSE ServedTools(ServerType(c.server)),
        cache |-> c.tools_cache, queried |-> TRUE]

\* ServerConnection.list_tools on connection c; lo is the outcome of the
\* session query when one is sent.  The SSE connection answers from its
\* cache and fills it when it is empty; the stdio and the command connection
\* always query, and only the stdio connection converts what is listed.
\* queried: a tool-listing query was sent to the session.
list_tools(c, lo) ==
  IF ~c.session
  THEN [raised |-> TRUE, tools |-> <<>>, cache |-> c.tools_cache, queried |-> FALSE]
  ELSE IF ServerType(c.server) = "sse"
  THEN LET cache == IF c.tools_cache # "none" THEN c.tools_cache
                    ELSE IF lo = "ok" THEN "listed"
                    ELSE IF lo = "empty" THEN "empty" ELSE "default"
       IN  [raised |-> FALSE, tools |-> cached_tools(cache), cache |-> cache,
            queried |-> c.tools_cache = "none"]
  ELSE [raised |-> lo = "fail",
        tools |-> IF lo # "ok" THEN <<>>
                  ELSE connection_tools(ServerType(c.server),
                                        ServedTools(ServerType(c.server))),
        cache |-> c.tools_cache, queried |-> TRUE]

\* the connection after a list_tools call with result l
after_list(c, l) ==
  [c EXCEPT !.tools_cache = l.cache,
            !.list_queries = @ + (IF l.queried THEN 1 ELSE 0)]

\* MCPClient.connect_to_server(server_name) on client state st
\* (connection, current_server, exit_stack, stacks, conns); name = None picks
\* the default server.  listOk: the session answers the tool-listing query
\* of the list_tools() call that follows connect().
connect_to_server(st, name, outcome, listOk) ==
  LET target == IF name = None THEN DefaultServer ELSE name
  IN  IF target \notin ServerSet
      THEN [st EXCEPT !.raised = TRUE, !.error = <<"unknown-server", target>>]
      ELSE LET id == Len(st.conns) + 1
               r  == connect(NewConnection(target, st.exit_stack), id,
                             st.stacks[st.exit_stack], outcome)
               listed == list_tools(r.conn, IF listOk THEN "ok" ELSE "fail")
               failed == r.raised \/ listed.raised
           IN  [st EXCEPT !.current_server = target,
                          !.connection = id,
                          !.conns = Append(st.conns,
                                           IF r.raised THEN r.conn
                                           ELSE after_list(r.conn, listed)),
                          !.stacks = [st.stacks EXCEPT ![st.exit_stack] = r.stk],
                          !.raised = failed,
                          !.error = IF r.raised THEN <<"connect-failed">>
                                    ELSE IF failed THEN <<"list-tools-failed">>
                                    ELSE <<>>]

\* variant: the engine attaches the descriptor's schema as it is
engine_schema_raw(inputSchema) == inputSchema

\* process_query: the parameters built from one descriptor's schema; a value
\* that is no dict becomes {}, and a schema without "type" is wrapped
engine_schema(inputSchema) ==
  LET schema == IF isinstance_dict(inputSchema) THEN inputSchema ELSE Dict(<<>>)
  IN  IF has_key(schema, "type") THEN schema ELSE object_schema(schema)

\* process_query: the function definition built from one tool descriptor
function_schema(tool) ==
  [type |-> "function",
   function |->
     [name |-> tool.name, description |-> tool.description,
      parameters |-> engine_schema(tool.inputSchema)]]

build_available_tools(tools) ==
  [i \in 1..Len(tools) |-> function_schema(tools[i])]

\* ------------------------------------------------------------- messages
\* config['system']['message']
SystemMessage == <<"system-prompt">>

\* the user's query
Query == <<"weather", " ", "in", " ", "Paris?">>

\* ", ".join(names)
RECURSIVE JoinComma(_)
JoinComma(names) ==
  IF names = <<>> THEN <<>>
  ELSE IF Len(names) = 1 THEN <<names[1]>>
  ELSE <<names[1], ",", " ">> \o JoinComma(Tail(names))

\* process_query: the roster text appended to the selection round's system message
server_info(cur) ==
  <<"\n", "\n", "servers:", " ">> \o JoinComma(Servers)
     \o <<"\n", "current:", " ", cur>>

format_system_message(content) ==
  [role |-> "system", content |-> content, tool_calls |-> <<>>,
   tool_call_id |-> None, name |-> None]

format_user_message(content) ==
  [role |-> "user", content |-> content, tool_calls |-> <<>>,
   tool_call_id |-> None, name |-> None]

format_assistant_message(content, calls) ==
  [role |-> "assistant", content |-> content, tool_calls |-> calls,
   tool_call_id |-> None, name |-> None]

\* variant: the tool message loses the id of its call
format_tool_message_noid(tool_call_id, tool_name, content) ==
  [role |-> "tool", content |-> content, tool_calls |-> <<>>,
   tool_call_id |-> None, name |-> tool_name]

format_tool_message(tool_call_id, tool_name, content) ==
  [role |-> "tool", content |-> content, tool_calls |-> <<>>,
   tool_call_id |-> tool_call_id, name |-> tool_name]

\* ------------------------------------------------------------- provider
\* variant: the request is sent a second time
post_retry(log, req) == Append(Append(log, req), req)

\* self._client.post(...): one HTTP request per call
post(log, req) == Append(log, req)

\* variant: no request is sent when the attached tool list is empty
generate_completion_skip_empty(log, round, messages, tools_given, tools) ==
  IF tools_given /\ tools = <<>> THEN log
  ELSE Append(log, [round |-> round, messages |-> messages,
                    tools_given |-> tools_given, tools |-> tools])

\* LLMProvider.generate_completion(messages, model, tools): the request log
\* afterwards; tools_given is FALSE when the tools argument is omitted
generate_completion(log, round, messages, tools_given, tools) ==
  post(log, [round |-> round, messages |-> messages,
             tools_given |-> tools_given, tools |-> tools])

\* str(e) of a failed provider request
ProviderError == <<"http-error">>

\* str(e) of a failed provider initialisation
InitError == <<"init-failed">>

\* texts a model may reply with in the tool round and the resume round
AnswerTexts == { <<>>, <<"ok">>, <<"see", " ", Directive, "maps">> }

\* texts a model may reply with in the selection round
ReplyTexts ==
  { <<>>,
    <<"ok">>,
    <<Directive, "maps">>,
    <<"use", " ", Directive, "maps", " ", "now">>,
    <<Directive, "weather", "\n", Directive, "maps">>,
    <<Directive, "nosuch">>,
    <<Directive, " ", "maps">> }

\* arguments strings a model may produce
WellFormedArgs == {"{\"city\": \"Paris\"}"}
MalformedArgs == {"{\"city\": "}
ArgStrings == WellFormedArgs \cup MalformedArgs

\* variant: every arguments string is accepted
json_loads_lenient(arguments) == TRUE

\* json.loads(arguments) succeeds
json_loads_ok(arguments) == arguments \in WellFormedArgs

\* tool names a model may call
CallNames == {"get_forecast"}

\* the tool-call lists of a reply: ids are unique within one completion
ToolCallLists ==
  UNION { [1..n -> [name : CallNames, arguments : ArgStrings]] : n \in 0..MaxCalls }

WithIds(calls) ==
  [i \in 1..Len(calls) |->
     [id |-> "call_" \o ToString(i - 1), name |-> calls[i].name,
      arguments |-> calls[i].arguments]]

\* ------------------------------------------------------------- tool results
\* repr() of a str: single quotes, unless the text holds a single quote and
\* no double quote; a single quote inside single quotes is escaped
RECURSIVE EscapeSingle(_)
EscapeSingle(t) ==
  IF t = <<>> THEN <<>>
  ELSE (IF Head(t) = "'" THEN <<"\\", "'">> ELSE <<Head(t)>>) \o EscapeSingle(Tail(t))

HasTok(t, x) == \E i \in 1..Len(t) : t[i] = x

py_repr(t) ==
  IF HasTok(t, "'") /\ ~HasTok(t, "\"")
  THEN <<"\"">> \o t \o <<"\"">>
  ELSE <<"'">> \o EscapeSingle(t) \o <<"'">>

\* str() of the one-entry dict {"error": message}
str_error_dict(message) ==
  <<"{">> \o py_repr(<<"error">>) \o <<":", " ">> \o py_repr(message) \o <<"}">>

\* json.dumps of the same dict (message without characters JSON escapes)
json_error_dict(message) ==
  <<"{", "\"", "error", "\"", ":", " ", "\"">> \o message \o <<"\"", "}">>

\* str(e) of exceptions a tool invocation may raise
ErrMsgs == { <<"boom">> }

ResultText == <<"sunny">>

\* what session.call_tool may do: return an object with a content attribute,
\* a mapping with a "content" key, a plain value, or raise
ToolOutcomes ==
  {[kind |-> k, text |-> ResultText] : k \in {"attr", "dict", "plain"}}
    \cup {[kind |-> "raise", text |-> m] : m \in ErrMsgs}

\* ServerConnection.call_tool on connection c with the session's outcome o
call_tool(c, o) ==
  IF ~c.session THEN [kind |-> "raise", text |-> <<"not-connected">>]
  ELSE IF ServerType(c.server) = "sse" /\ o.kind = "raise"
  THEN [kind |-> "errdict", text |-> <<"call-failed:", " ">> \o o.text]
  ELSE o

\* variant: the text of a raised failure is dropped
tool_result_content_drop(r) ==
  IF r.kind = "raise" THEN <<>>
  ELSE IF r.kind = "errdict" THEN str_error_dict(r.text)
  ELSE r.text

\* process_query: the except branch and the conversion of the result to text
tool_result_content(r) ==
  IF r.kind = "raise" THEN str_error_dict(r.text)
  ELSE IF r.kind = "errdict" THEN str_error_dict(r.text)
  ELSE r.text

\* ------------------------------------------------------------- provider selection
\* A model name and the authority of a URL are sequences of chunks of
\* characters; a prefix and an official domain are single chunks.

\* LLMFactory._official_endpoints, in the order of the dict
Vendors == <<"openai", "anthropic", "google">>

VendorSet == {Vendors[i] : i \in 1..Len(Vendors)}

official_endpoints(v) ==
  IF v = "openai" THEN {"api.openai.com"}
  ELSE IF v = "anthropic" THEN {"api.anthropic.com", "claude.ai"}
  ELSE {"generativelanguage.googleapis.com", "ai.googleapis.com"}

\* model_prefix_map, in the order of the dict
model_prefix_map ==
  << <<"gpt", "openai">>, <<"claude", "anthropic">>, <<"gemini", "google">>,
     <<"text-bison", "google">>, <<"palm", "google">> >>

\* variant: the case of the name is kept
lower_keep(chunk) == chunk

\* str.lower() of one chunk
lower(chunk) ==
  CASE chunk = "GPT" -> "gpt"
    [] chunk = "Claude" -> "claude"
    [] chunk = "Gemini" -> "gemini"
    [] chunk = "API.OPENAI.COM" -> "api.openai.com"
    [] OTHER -> chunk

LowerAll(chunks) == [i \in 1..Len(chunks) |-> lower(chunks[i])]

\* str.startswith(prefix)
startswith(name, prefix) == name # <<>> /\ name[1] = prefix

\* the first prefix of the map the lower-cased model name starts with
RECURSIVE candidate_from(_, _)
candidate_from(name, i) ==
  IF i > Len(model_prefix_map) THEN None
  ELSE IF startswith(LowerAll(name), model_prefix_map[i][1])
       THEN model_prefix_map[i][2]
  ELSE candidate_from(name, i + 1)

provider_candidate(model_name) == candidate_from(model_name, 1)

\* the values of base_url: None, the empty string, or a URL text with or
\* without the "//" that starts an authority; parse is FALSE when
\* urllib.parse.urlparse raises on the text
NoUrl == [kind |-> "none", slashes |-> FALSE, authority |-> <<>>, parse |-> TRUE]
EmptyUrl == [kind |-> "empty", slashes |-> FALSE, authority |-> <<>>, parse |-> TRUE]
Url(authority) ==
  [kind |-> "url", slashes |-> TRUE, authority |-> authority, parse |-> TRUE]

\* if base_url:
Truthy(url) == url.kind = "url"

\* urllib.parse.urlparse(base_url).netloc
netloc(url) == IF url.slashes THEN url.authority ELSE <<>>

\* domain in hostname
domain_in(domain, hostname) == \E i \in 1..Len(hostname) : hostname[i] = domain

\* the first vendor one of whose official domains occurs in the hostname
RECURSIVE matched_from(_, _)
matched_from(hostname, i) ==
  IF i > Len(Vendors) THEN None
  ELSE IF \E d \in official_endpoints(Vendors[i]) : domain_in(d, hostname)
       THEN Vendors[i]
  ELSE matched_from(hostname, i + 1)

\* variant: the hostname has to equal the official domain
matched_provider_exact(hostname) ==
  IF \E v \in VendorSet : \E d \in official_endpoints(v) : hostname = <<d>>
  THEN CHOOSE v \in VendorSet : \E d \in official_endpoints(v) : hostname = <<d>>
  ELSE None

matched_provider(hostname) == matched_from(hostname, 1)

\* the provider chosen from the model name alone
by_model_name(model_name) ==
  IF provider_candidate(model_name) # None THEN provider_candidate(model_name)
  ELSE "openai"

\* variant: an endpoint that matches no official domain leaves the choice
\* to the model name
get_provider_for_model_by_name(model_name, url) ==
  IF Truthy(url) /\ url.parse /\ matched_provider(LowerAll(netloc(url))) # None
  THEN matched_provider(LowerAll(netloc(url)))
  ELSE by_model_name(model_name)

\* LLMFactory.get_provider_for_model(model_name, api_key, base_url): the
\* name of the registered provider that is created
get_provider_for_model(model_name, url) ==
  IF Truthy(url) /\ url.parse
  THEN LET hostname == LowerAll(netloc(url))
       IN  IF matched_provider(hostname) # None THEN matched_provider(hostname)
           ELSE "openai"
  ELSE by_model_name(model_name)

\* config['models']['selected'] and config['api']['base_url'] of the
\* default configuration
DefaultModel == <<"gpt", "-4o">>
DefaultBaseUrl == Url(<<"api.openai.com">>)

\* model names and endpoints the provider selection is applied to
ModelNames ==
  { <<"gpt", "-4o">>, <<"GPT", "-4">>, <<"claude", "-3-5-sonnet">>,
    <<"Claude", "-3">>, <<"gemini", "-pro">>, <<"text-bison", "-001">>,
    <<"palm", "-2">>, <<"llama", "-3">>, <<"chat", "gpt">>, <<>> }

BaseUrls ==
  { NoUrl, EmptyUrl,
    Url(<<"api.openai.com">>), Url(<<"API.OPENAI.COM">>),
    Url(<<"api.anthropic.com">>), Url(<<"claude.ai">>),
    Url(<<"eu.", "api.anthropic.com">>),
    Url(<<"generativelanguage.googleapis.com">>),
    Url(<<"key@", "ai.googleapis.com", ":443">>),
    Url(<<"my-proxy.example.com">>), Url(<<"openai.com">>),
    Url(<<"api.openai.com", ".", "claude.ai">>),
    [Url(<<"api.anthropic.com">>) EXCEPT !.slashes = FALSE],
    [Url(<<"[::1">>) EXCEPT !.parse = FALSE] }

\* ------------------------------------------------------------- tools per model
\* the schema keys the Gemini transform skips
GeminiUnsupported == {"$defs", "$ref", "default"}

\* MCPClient._simplify_schema_for_gemini(schema): an unsupported key is
\* skipped, a dict value is simplified, the items of a list value are
\* simplified when they are dicts and kept otherwise (a list included)
RECURSIVE simplify_schema_for_gemini(_)
RECURSIVE simplify_items(_)
simplify_items(items) ==
  IF items = <<>> THEN <<>>
  ELSE LET key == Head(items).key
           value == Head(items).value
           rest == simplify_items(Tail(items))
       IN  IF key \in GeminiUnsupported THEN rest
           ELSE IF isinstance_dict(value)
           THEN <<Item(key, simplify_schema_for_gemini(value))>> \o rest
           ELSE IF isinstance_list(value)
           THEN <<Item(key,
                       List([i \in 1..Len(value.of) |->
                               IF isinstance_dict(value.of[i])
                               THEN simplify_schema_for_gemini(value.of[i])
                               ELSE value.of[i]]))>> \o rest
           ELSE <<Item(key, value)>> \o rest

simplify_schema_for_gemini(schema) ==
  IF ~isinstance_dict(schema) THEN schema
  ELSE Dict(simplify_items(schema.of))

\* "gemini" in model.lower()
is_gemini(model) == domain_in("gemini", LowerAll(model))

\* variant: the transform is applied when the name starts with the marker
prepare_tools_for_model_prefix(tools, model) ==
  IF ~startswith(LowerAll(model), "gemini") THEN tools
  ELSE [i \in 1..Len(tools) |->
          [tools[i] EXCEPT !.function.parameters =
                             simplify_schema_for_gemini(@)]]

\* MCPClient._prepare_tools_for_model(tools, model)
prepare_tools_for_model(tools, model) ==
  IF ~is_gemini(model) THEN tools
  ELSE [i \in 1..Len(tools) |->
          [tools[i] EXCEPT !.function.parameters =
                             simplify_schema_for_gemini(@)]]

\* OpenAIProvider.generate_completion: payload["tools"]; parameters that
\* are no dict become {}, and parameters without "type" are wrapped
openai_tools(tools) ==
  [i \in 1..Len(tools) |->
     LET p == tools[i].function.parameters
         params == IF isinstance_dict(p) THEN p ELSE Dict(<<>>)
     IN  IF has_key(params, "type") THEN tools[i]
         ELSE [tools[i] EXCEPT !.function.parameters = object_schema(params)]]

\* AnthropicProvider.generate_completion: payload["tools"]
claude_tools(tools) ==
  [i \in 1..Len(tools) |->
     [name |-> tools[i].function.name,
      description |-> tools[i].function.description,
      input_schema |-> tools[i].function.parameters]]

\* GoogleProvider.generate_completion: the functionDeclarations
function_declarations(tools) ==
  [i \in 1..Len(tools) |->
     [name |-> tools[i].function.name,
      description |-> tools[i].function.description,
      parameters |-> tools[i].function.parameters]]

\* the tool entries the adapter of the vendor puts into its payload; an
\* empty tool list adds no entry
adapter_tools(vendor, tools) ==
  IF vendor = "anthropic" THEN claude_tools(tools)
  ELSE IF vendor = "google" THEN function_declarations(tools)
  ELSE openai_tools(tools)

\* the parameter schema of one payload entry of the vendor's adapter
payload_schema(vendor, entry) ==
  IF vendor = "anthropic" THEN entry.input_schema
  ELSE IF vendor = "google" THEN entry.parameters
  ELSE entry.function.parameters

\* schemas a server may supply for a tool
SuppliedSchemas ==
  { string_params("city"),
    Dict(<<>>),
    Dict(<< Item("state", Scalar("string")) >>),
    Dict(<< Item("default", Dict(<< Item("type", Scalar("string")) >>)) >>),
    Dict(<< Item("type", Scalar("object")),
            Item("properties",
                 Dict(<< Item("n", Dict(<< Item("type", Scalar("integer")),
                                           Item("default", Scalar("5")) >>)) >>)) >>),
    Dict(<< Item("type", Scalar("object")),
            Item("$defs", Dict(<< Item("P", Dict(<< Item("type", Scalar("string")) >>)) >>)),
            Item("properties",
                 Dict(<< Item("p", Dict(<< Item("$ref", Scalar("#/$defs/P")) >>)) >>)) >>),
    Dict(<< Item("type", Scalar("object")),
            Item("properties",
                 Dict(<< Item("u", Dict(<< Item("anyOf",
                           List(<< Dict(<< Item("type", Scalar("string")),
                                           Item("default", Scalar("x")) >>),
                                   Scalar("null") >>)) >>)) >>)),
            Item("required", List(<< Scalar("u") >>)) >>),
    Dict(<< Item("type", Scalar("object")),
            Item("properties",
                 Dict(<< Item("m", Dict(<< Item("type", Scalar("array")),
                           Item("examples",
                                List(<< List(<< Dict(<< Item("default", Scalar("1")) >>) >>) >>)) >>)) >>)) >> ) }

\* the tool lists a session may list: no tool, or one tool with one of
\* the schemas
SessionToolLists ==
  { <<>> } \cup
  { << [name |-> "f", description |-> Text(10), inputSchema |-> s] >> :
      s \in SuppliedSchemas }

\* target model names of a query
TargetModels ==
  { <<"gpt", "-4o">>, <<"claude", "-3-5-sonnet">>, <<"gemini", "-pro">>,
    <<"Gemini", "-1.5">>, <<"models/", "gemini", "-pro">> }

\* ------------------------------------------------------------- adapters: request
\* variant: the tool result is passed on without its annotation
tool_response_bare(msg) == msg.content

\* f"Tool Response ({msg['name']}): {msg['content']}"
tool_response(msg) == <<"Tool Response (", msg.name, "): ">> \o msg.content

\* f"Tool Output ({msg['name']}): {msg['content']}"
tool_output(msg) == <<"Tool Output (", msg.name, "): ">> \o msg.content

\* variant: a tool message always becomes a new user message
claude_append_new(acc, msg) ==
  IF msg.role = "system" THEN acc
  ELSE IF msg.role \in {"user", "assistant"}
  THEN Append(acc, [role |-> msg.role, content |-> msg.content])
  ELSE Append(acc, [role |-> "user", content |-> tool_response(msg)])

\* AnthropicProvider.generate_completion: one pass of the loop over the
\* canonical messages; acc is claude_messages
claude_append(acc, msg) ==
  IF msg.role = "system" THEN acc
  ELSE IF msg.role \in {"user", "assistant"}
  THEN Append(acc, [role |-> msg.role, content |-> msg.content])
  ELSE IF msg.role = "tool"
  THEN IF acc # <<>> /\ acc[Len(acc)].role = "user"
       THEN [acc EXCEPT ![Len(acc)].content =
                          @ \o <<"\n\n">> \o tool_response(msg)]
       ELSE Append(acc, [role |-> "user", content |-> tool_response(msg)])
  ELSE acc

RECURSIVE claude_messages(_, _)
claude_messages(messages, acc) ==
  IF messages = <<>> THEN acc
  ELSE claude_messages(Tail(messages), claude_append(acc, Head(messages)))

\* system_content after the loop: the content of the last system message
RECURSIVE system_content(_, _)
system_content(messages, cur) ==
  IF messages = <<>> THEN cur
  ELSE system_content(Tail(messages),
                      IF Head(messages).role = "system"
                      THEN Head(messages).content ELSE cur)

\* variant: an assistant message keeps its role
gemini_append_assistant(acc, msg) ==
  IF msg.role = "system"
  THEN Append(acc, [role |-> "user",
                    parts |-> << [text |-> <<"[SYSTEM]">> \o msg.content
                                             \o <<"[/SYSTEM]">>] >>])
  ELSE IF msg.role \in {"user", "assistant"}
  THEN Append(acc, [role |-> msg.role, parts |-> << [text |-> msg.content] >>])
  ELSE IF acc # <<>> /\ acc[Len(acc)].role = "user"
  THEN [acc EXCEPT ![Len(acc)].parts[1].text = @ \o <<"\n\n">> \o tool_output(msg)]
  ELSE Append(acc, [role |-> "user", parts |-> << [text |-> tool_output(msg)] >>])

\* GoogleProvider.generate_completion: one pass of the loop over the
\* canonical messages; acc is gemini_messages
gemini_append(acc, msg) ==
  IF msg.role = "system"
  THEN Append(acc, [role |-> "user",
                    parts |-> << [text |-> <<"[SYSTEM]">> \o msg.content
                                             \o <<"[/SYSTEM]">>] >>])
  ELSE IF msg.role = "user"
  THEN Append(acc, [role |-> "user", parts |-> << [text |-> msg.content] >>])
  ELSE IF msg.role = "assistant"
  THEN Append(acc, [role |-> "model", parts |-> << [text |-> msg.content] >>])
  ELSE IF msg.role = "tool"
  THEN IF acc # <<>> /\ acc[Len(acc)].role = "user"
       THEN [acc EXCEPT ![Len(acc)].parts[1].text =
                          @ \o <<"\n\n">> \o tool_output(msg)]
       ELSE Append(acc, [role |-> "user",
                         parts |-> << [text |-> tool_output(msg)] >>])
  ELSE acc

RECURSIVE gemini_messages(_, _)
gemini_messages(messages, acc) ==
  IF messages = <<>> THEN acc
  ELSE gemini_messages(Tail(messages), gemini_append(acc, Head(messages)))

\* the system field and the messages of the payload the vendor's adapter
\* builds; an empty system text adds no field, and the OpenAI adapter posts
\* the canonical messages as they are
adapter_messages(vendor, messages) ==
  IF vendor = "anthropic"
  THEN [system |-> system_content(messages, <<>>),
        messages |-> claude_messages(messages, <<>>)]
  ELSE IF vendor = "google"
  THEN [system |-> <<>>, messages |-> gemini_messages(messages, <<>>)]
  ELSE [system |-> <<>>, messages |-> messages]

\* canonical message lists handed to an adapter
ToolCallA == [id |-> "call_0", name |-> "get_forecast",
              arguments |-> "{\"city\": \"Paris\"}"]
ToolMessageA == format_tool_message("call_0", "get_forecast", ResultText)
ToolMessageB == format_tool_message("call_1", "get_alerts", <<"none">>)
ToolCallB == [id |-> "call_1", name |-> "get_alerts",
              arguments |-> "{\"state\": \"CA\"}"]

MessageLists ==
  LET sys == format_system_message(SystemMessage)
      usr == format_user_message(Query)
      asst == format_assistant_message(<<"ok">>, <<ToolCallA>>)
  IN  { <<usr>>,
        <<sys, usr>>,
        <<format_system_message(<<>>), usr>>,
        <<sys, usr, asst, ToolMessageA>>,
        <<sys, usr, asst, ToolMessageA, ToolMessageB>>,
        <<sys, usr, ToolMessageA>>,
        <<usr, ToolMessageA, ToolMessageB>>,
        <<ToolMessageA>>,
        <<sys, ToolMessageA>>,
        <<sys, usr, asst, format_user_message(<<"more">>), ToolMessageB>>,
        <<sys, usr, format_assistant_message(<<>>, <<ToolCallA, ToolCallB>>),
          ToolMessageA, ToolMessageB>> }

\* ------------------------------------------------------------- adapters: response
\* json.dumps(v) with the default separators; scalars are JSON strings
RECURSIVE json_dumps(_)
RECURSIVE dumps_items(_)
RECURSIVE dumps_elems(_)
dumps_items(items) ==
  IF items = <<>> THEN ""
  ELSE "\"" \o Head(items).key \o "\": " \o json_dumps(Head(items).value)
       \o (IF Len(items) > 1 THEN ", " ELSE "") \o dumps_items(Tail(items))

dumps_elems(elems) ==
  IF elems = <<>> THEN ""
  ELSE json_dumps(Head(elems))
       \o (IF Len(elems) > 1 THEN ", " ELSE "") \o dumps_elems(Tail(elems))

json_dumps(v) ==
  IF isinstance_dict(v) THEN "{" \o dumps_items(v.of) \o "}"
  ELSE IF isinstance_list(v) THEN "[" \o dumps_elems(v.of) \o "]"
  ELSE "\"" \o v.of[1] \o "\""

\* f"call_{i}"
call_id(i) == "call_" \o ToString(i)

\* the canonical tool call the adapters build
canonical_call(i, name, args) ==
  [id |-> call_id(i), name |-> name, arguments |-> json_dumps(args)]

\* a content block of an Anthropic response and a part of a Gemini
\* candidate: a text, or a call of a tool (has_args: the call carries
\* its arguments)
TextPart(text) ==
  [type |-> "text", text |-> text, name |-> None, input |-> Dict(<<>>),
   has_args |-> FALSE]
CallPart(name, input, has_args) ==
  [type |-> "call", text |-> <<>>, name |-> name, input |-> input,
   has_args |-> has_args]

\* part.get("text", "")
part_text(part) == IF part.type = "text" THEN part.text ELSE <<>>

\* GoogleProvider._extract_function_calls: the loop over the parts; n is
\* len(tool_calls) so far
RECURSIVE function_calls(_, _)
function_calls(parts, n) ==
  IF parts = <<>> THEN <<>>
  ELSE IF Head(parts).type = "call"
  THEN <<canonical_call(n, Head(parts).name,
                        IF Head(parts).has_args THEN Head(parts).input
                        ELSE Dict(<<>>))>>
       \o function_calls(Tail(parts), n + 1)
  ELSE function_calls(Tail(parts), n)

\* GoogleProvider._extract_function_calls(response)
extract_function_calls(response) ==
  IF response.candidates = <<>> THEN <<>>
  ELSE function_calls(response.candidates[1].parts, 0)

\* GoogleProvider._extract_gemini_content(response)
extract_gemini_content(response) ==
  IF response.candidates = <<>> THEN <<>>
  ELSE IF response.candidates[1].parts = <<>> THEN <<>>
  ELSE part_text(response.candidates[1].parts[1])

Raised == [raised |-> TRUE, content |-> <<>>, tool_calls |-> <<>>]

\* variant: the ids of the Anthropic adapter start at 1
anthropic_completion_from_one(result) ==
  IF result.content = <<>> THEN Raised
  ELSE [raised |-> FALSE,
        content |-> part_text(result.content[1]),
        tool_calls |->
          IF ~result.has_tool_use THEN <<>>
          ELSE [i \in 1..Len(result.tool_use) |->
                  canonical_call(i, result.tool_use[i].name,
                                 result.tool_use[i].input)]]

\* AnthropicProvider.generate_completion: openai_format built from the
\* response; result["content"][0] of an empty content list raises
anthropic_completion(result) ==
  IF result.content = <<>> THEN Raised
  ELSE [raised |-> FALSE,
        content |-> part_text(result.content[1]),
        tool_calls |->
          IF ~result.has_tool_use THEN <<>>
          ELSE [i \in 1..Len(result.tool_use) |->
                  canonical_call(i - 1, result.tool_use[i].name,
                                 result.tool_use[i].input)]]

\* GoogleProvider.generate_completion: openai_response built from the
\* response
google_completion(result) ==
  [raised |-> FALSE, content |-> extract_gemini_content(result),
   tool_calls |-> extract_function_calls(result)]

\* OpenAIProvider.generate_completion returns the response as it is
openai_completion(result) ==
  [raised |-> FALSE, content |-> result.content,
   tool_calls |-> result.tool_calls]

\* generate_completion of the vendor's adapter: the completion returned
\* for the vendor's response
adapter_completion(result) ==
  IF result.vendor = "anthropic" THEN anthropic_completion(result)
  ELSE IF result.vendor = "google" THEN google_completion(result)
  ELSE openai_completion(result)

\* extract_text(completion), extract_tool_calls(completion)
extract_text(c) == c.content
extract_tool_calls(c) == c.tool_calls

\* the most parts a simulated response carries
MaxParts == 3

SeqsUpTo(S, n) == UNION { [1..k -> S] : k \in 0..n }

ArgsA == Dict(<< Item("city", Scalar("Paris")) >>)

\* parts and blocks of simulated responses
Parts ==
  { TextPart(<<"ok">>), CallPart("get_forecast", ArgsA, TRUE),
    CallPart("get_alerts", Dict(<<>>), FALSE) }

\* entries of the tool_use list the Anthropic adapter reads
ToolUses ==
  { [name |-> "get_forecast", input |-> ArgsA],
    [name |-> "get_alerts", input |-> Dict(<<>>)] }

\* tool calls of an OpenAI response: the vendor supplies the ids
OpenAICalls(calls) ==
  [i \in 1..Len(calls) |->
     [id |-> "vendor_" \o ToString(i), name |-> calls[i].name,
      arguments |-> json_dumps(calls[i].input)]]

\* simulated vendor responses
VendorResponses ==
  { [vendor |-> "google", candidates |-> <<>>] }
  \cup { [vendor |-> "google", candidates |-> << [parts |-> ps] >>] :
           ps \in SeqsUpTo(Parts, MaxParts) }
  \cup { [vendor |-> "anthropic", content |-> bs, has_tool_use |-> FALSE,
          tool_use |-> <<>>] :
           bs \in SeqsUpTo({ p \in Parts : p.has_args \/ p.type = "text" }, 2) }
  \cup { [vendor |-> "anthropic", content |-> bs, has_tool_use |-> TRUE,
          tool_use |-> us] :
           bs \in SeqsUpTo({ p \in Parts : p.type = "text" }, 1),
           us \in SeqsUpTo(ToolUses, MaxCalls) }
  \cup { [vendor |-> "openai", content |-> t, tool_calls |-> OpenAICalls(us)] :
           t \in { <<>>, <<"ok">> }, us \in SeqsUpTo(ToolUses, MaxCalls) }

\* ------------------------------------------------------------- roster
\* servers[value["name"]] = value on a dict kept in insertion order
dict_set(d, value) ==
  IF \E i \in 1..Len(d) : d[i].name = value.name
  THEN [i \in 1..Len(d) |-> IF d[i].name = value.name THEN value ELSE d[i]]
  ELSE Append(d, value)

\* find_server_instances: the loop over config["servers"]["instances"]
RECURSIVE from_instances(_, _)
from_instances(instances, acc) ==
  IF instances = <<>> THEN acc
  ELSE from_instances(Tail(instances), dict_set(acc, Head(instances)))

\* filename.endswith('.py') / '.js' and os.path.isfile(filepath)
is_script(file) == file.ext \in {".py", ".js"} /\ file.isfile

\* find_server_files: the loop over os.listdir(directory); the name is
\* os.path.splitext(filename)[0]
RECURSIVE from_files(_, _)
from_files(files, acc) ==
  IF files = <<>> THEN acc
  ELSE from_files(Tail(files),
                  IF is_script(Head(files))
                  THEN dict_set(acc, [name |-> Head(files).stem,
                                      path |-> Head(files)])
                  ELSE acc)

\* find_server_files(directory)
find_server_files(directory) ==
  IF ~directory.exists THEN <<>> ELSE from_files(directory.files, <<>>)

\* the config synthesized for a script file found in the directory
file_server(found) ==
  [name |-> found.name, type |-> "stdio", script |-> found.path,
   description |-> "discovered"]

\* variant: the servers found in the directory are always added
find_server_instances_both(cfg) ==
  LET configured == from_instances(cfg.instances, <<>>)
      found == find_server_files(cfg.directory)
  IN  from_instances([i \in 1..Len(found) |-> file_server(found[i])],
                     configured)

\* find_server_instances(config)
find_server_instances(cfg) ==
  LET configured == from_instances(cfg.instances, <<>>)
      found == find_server_files(cfg.directory)
  IN  IF configured # <<>> THEN configured
      ELSE [i \in 1..Len(found) |-> file_server(found[i])]

\* servers.keys()
keys(roster) == [i \in 1..Len(roster) |-> roster[i].name]

\* server_name in servers
in_roster(roster, name) == \E i \in 1..Len(roster) : roster[i].name = name

\* servers[server_name]
server_config(roster, name) ==
  roster[CHOOSE i \in 1..Len(roster) : roster[i].name = name]

\* variant: an unrecognized type is treated as a local process
create_server_connection_lenient(server_config_) ==
  LET server_type == IF server_config_.type = None THEN "stdio"
                     ELSE server_config_.type
  IN  IF server_type = "sse" THEN "SSEConnection"
      ELSE IF server_type = "command" THEN "CommandConnection"
      ELSE "StdioConnection"

\* create_server_connection(server_config, exit_stack): the class of the
\* connection created, or the ValueError raised
create_server_connection(server_config_) ==
  LET server_type == IF server_config_.type = None THEN "stdio"
                     ELSE server_config_.type
  IN  IF server_type = "stdio" THEN "StdioConnection"
      ELSE IF server_type = "sse" THEN "SSEConnection"
      ELSE IF server_type = "command" THEN "CommandConnection"
      ELSE "ValueError"

\* configured instances (type None: the instance has no "type" key)
Instance(name, type) ==
  [name |-> name, type |-> type, script |-> None, description |-> "configured"]

DefaultInstances ==
  << Instance("weather", "stdio"), Instance("maps", "sse"),
     Instance("shell", "command") >>

ConfiguredInstances ==
  { Instance("weather", "stdio"), Instance("maps", "sse"),
    Instance("legacy", "ws"), Instance("plain", None) }

\* entries of the server directory
File(stem, ext, isfile) == [stem |-> stem, ext |-> ext, isfile |-> isfile]

DirectoryEntries ==
  { File("weather", ".py", TRUE), File("system_tools", ".py", TRUE),
    File("weather", ".js", TRUE), File("notes", ".txt", TRUE),
    File("pkg", ".py", FALSE) }

\* the most instances of a configuration and entries of a directory
MaxInstances == 2
MaxFiles == 2

\* sequences without repetition
Distinct(s) == \A i, j \in 1..Len(s) : s[i] = s[j] => i = j

Directories ==
  { [exists |-> FALSE, files |-> <<>>] } \cup
  { [exists |-> TRUE, files |-> fs] :
      fs \in { s \in SeqsUpTo(DirectoryEntries, MaxFiles) : Distinct(s) } }

Configs ==
  [instances : SeqsUpTo(ConfiguredInstances, MaxInstances),
   directory : Directories,
   default : {None, "weather"}]

\* config['servers'] of the default configuration
DefaultConfig ==
  [instances |-> DefaultInstances,
   directory |-> [exists |-> TRUE, files |-> <<>>],
   default |-> "weather"]

\* ------------------------------------------------------------- engine
NoQuery ==
  /\ server_name = None
  /\ query_messages = <<>>
  /\ final_text = <<>>
  /\ tool_calls = <<>>
  /\ idx = 0
  /\ available_tools = <<>>
  /\ requests = <<>>
  /\ dispatched = <<>>

ClientInit ==
  /\ connection = 0
  /\ current_server = None
  /\ exit_stack = 1
  /\ stacks = << <<>> >>
  /\ conns = <<>>
  /\ closed = <<>>
  /\ pc = "start"
  /\ NoQuery
  /\ ret = [kind |-> "none", text |-> <<>>]

\* no tool list is in preparation outside a query
NoTools ==
  /\ session_tools = [type |-> "stdio", tools |-> <<>>]
  /\ listed_tools = <<>>
  /\ payload_tools = <<>>

\* no request is being built and no response is being read
NoExchange ==
  /\ payload_messages = [system |-> <<>>, messages |-> <<>>]
  /\ vendor_response = [vendor |-> None]
  /\ completion = [raised |-> FALSE, content |-> <<>>, tool_calls |-> <<>>]

\* the roster of the default configuration
DefaultRoster ==
  /\ config = DefaultConfig
  /\ servers = find_server_instances(DefaultConfig)

Init ==
  /\ ClientInit
  /\ selected_model = DefaultModel
  /\ base_url = DefaultBaseUrl
  /\ provider = None
  /\ NoTools
  /\ NoExchange
  /\ DefaultRoster

CanCreate == Len(conns) < MaxConns

\* MCPClient.cleanup: the connection is dropped and the exit stack is closed
cleanup(st) == aclose([st EXCEPT !.connection = 0], st.exit_stack)

\* start_cli: connect to the default server, then start the CLI; a failure
\* is printed and the client is cleaned up
StartCli ==
  /\ pc = "start"
  /\ \E outcome \in ConnectOutcomes(ServerType(DefaultServer)), lo \in ListOutcomes :
       LET st == connect_to_server(ClientState, None, outcome, lo # "fail")
       IN  IF st.raised
           THEN /\ SetClient(cleanup(st))
                /\ pc' = "exited"
                /\ ret' = [kind |-> "error", text |-> st.error]
           ELSE /\ SetClient(st)
                /\ pc' = "idle"
                /\ ret' = ret
  /\ UNCHANGED queryVars
  /\ UNCHANGED providerVars

\* CommandHandler.cmd_connect(args) with args[0] = name
cmd_connect(st, name, outcome, listOk) ==
  IF name = None THEN st ELSE
  LET old_exit_stack == st.exit_stack
      released == IF st.connection # 0
                  THEN aclose([st EXCEPT !.connection = 0,
                                         !.stacks = Append(st.stacks, <<>>),
                                         !.exit_stack = Len(st.stacks) + 1],
                              old_exit_stack)
                  ELSE st
  IN  connect_to_server(released, name, outcome, listOk)

\* args of the connect command: a roster name, an unknown name, or nothing
CmdNames == ServerSet \cup {"nosuch", None}

CmdConnect ==
  /\ pc = "idle"
  /\ CanCreate
  /\ \E name \in CmdNames :
     \E outcome \in ConnectOutcomes(IF name \in ServerSet THEN ServerType(name) ELSE "stdio"),
        lo \in ListOutcomes :
       LET st == cmd_connect(ClientState, name, outcome, lo # "fail")
       IN  /\ SetClient(st)
           /\ ret' = IF name = None
                     THEN [kind |-> "cmd_usage", text |-> <<>>]
                     ELSE IF st.raised
                     THEN [kind |-> "cmd_error", text |-> st.error]
                     ELSE [kind |-> "cmd_connected", text |-> <<name>>]
  /\ pc' = "idle"
  /\ UNCHANGED queryVars
  /\ UNCHANGED providerVars

\* CommandHandler.cmd_quit: cleanup, then sys.exit(0); SystemExit passes the
\* handlers of the interactive loop and unwinds into the finally of
\* start_cli, which runs cleanup again
CmdQuit ==
  /\ pc = "idle"
  /\ SetClient(cleanup(cleanup(ClientState)))
  /\ pc' = "exited"
  /\ ret' = [kind |-> "bye", text |-> <<>>]
  /\ UNCHANGED queryVars
  /\ UNCHANGED providerVars

\* CLI.run_interactive_loop: KeyboardInterrupt at the prompt runs cleanup and
\* leaves the loop; start_cli's finally runs cleanup again
Interrupt ==
  /\ pc = "idle"
  /\ SetClient(cleanup(cleanup(ClientState)))
  /\ pc' = "exited"
  /\ ret' = [kind |-> "interrupted", text |-> <<>>]
  /\ UNCHANGED queryVars
  /\ UNCHANGED providerVars

\* variant: the exception leaves process_query
error_return_propagate(e) == [kind |-> "raised", text |-> e]

\* process_query: the outer except returns the error text
error_return(e) == [kind |-> "error", text |-> <<"query-error:", " ">> \o e]

\* variant: a separator is written between the two fragments even when one
\* of them is empty
answer_return_separated(frags) ==
  [kind |-> "answer",
   text |-> IF Len(frags) = 2 THEN frags[1] \o <<"\n">> \o frags[2]
            ELSE JoinNonEmpty(frags)]

\* process_query: the normal return
answer_return(frags) == [kind |-> "answer", text |-> JoinNonEmpty(frags)]

\* variant: a failed resume completion fails the whole query
partial_return_fail(frags, e) ==
  [kind |-> "error", text |-> <<"query-error:", " ">> \o e]

\* process_query: the return taken when the resume completion fails
partial_return(frags, e) ==
  [kind |-> "partial",
   text |-> JoinNonEmpty(frags) \o <<"\n", "\n", "resume-error:", " ">> \o e]

\* process_query up to the first completion request: connect to the default
\* server when there is no connection, then initialise the provider
QueryStart ==
  /\ pc = "idle"
  /\ NoQuery
  /\ \E outcome \in ConnectOutcomes(ServerType(DefaultServer)), lo \in ListOutcomes,
        initOk \in BOOLEAN :
       LET st == IF connection = 0
                 THEN connect_to_server(ClientState, None, outcome, lo # "fail")
                 ELSE ClientState
       IN  /\ connection = 0 => CanCreate
           /\ connection # 0 => conns[connection].list_queries < MaxListQueries
           /\ connection # 0 => (outcome = "ok" /\ lo = "ok")
           /\ SetClient(st)
           /\ IF st.raised
              THEN /\ pc' = "returned"
                   /\ ret' = error_return(st.error)
              ELSE IF ~initOk
              THEN /\ pc' = "returned"
                   /\ ret' = error_return(InitError)
              ELSE /\ pc' = "select"
                   /\ ret' = [kind |-> "none", text |-> <<>>]
  /\ UNCHANGED queryVars
  /\ UNCHANGED providerVars

\* suggest_server_for_query
suggest_server_for_query(cur) == IF cur # None THEN cur ELSE Servers[1]

\* variant: the name of the directive is used without validation
choose_server_unchecked(content, cur) ==
  IF server_match(content) # 0 THEN group1(content)
  ELSE suggest_server_for_query(cur)

\* process_query: the server named by the selection reply, after validation
choose_server(content, cur) ==
  LET named == IF server_match(content) # 0 THEN group1(content)
               ELSE suggest_server_for_query(cur)
  IN  IF named \in ServerSet THEN named
      ELSE IF cur # None THEN cur ELSE Servers[1]

\* process_query: the first completion request and the parse of its reply
SelectionRound ==
  /\ pc = "select"
  /\ requests' = generate_completion(requests, "select",
                    << format_system_message(SystemMessage \o server_info(current_server)),
                       format_user_message(Query) >>, FALSE, <<>>)
  /\ \E ok \in BOOLEAN, content \in ReplyTexts :
       IF ~ok
       THEN /\ content = <<>>
            /\ pc' = "returned"
            /\ ret' = error_return(ProviderError)
            /\ server_name' = server_name
       ELSE /\ server_name' = choose_server(content, current_server)
            /\ pc' = "switch"
            /\ ret' = ret
  /\ UNCHANGED <<clientVars, query_messages, final_text, tool_calls, idx,
                 available_tools, dispatched>>
  /\ UNCHANGED providerVars

\* variant: the tools are listed on the connection held before the switch
tools_connection_before(old, new) == old

\* process_query: self.connection when the tools are listed, old being the
\* connection held before the switch and new the one held after it
tools_connection(old, new) == new

\* process_query: switch when the chosen server differs from the current
\* one, then list the tools of the connection and build the definitions
Switch ==
  /\ pc = "switch"
  /\ \E outcome \in ConnectOutcomes(ServerType(server_name)), lo \in ListOutcomes,
        lo2 \in ListOutcomes :
       LET switching == current_server # server_name
           st == IF switching
                 THEN connect_to_server(ClientState, server_name, outcome, lo # "fail")
                 ELSE ClientState
           listed == list_tools(st.conns[tools_connection(connection, st.connection)], lo2)
       IN  /\ switching => CanCreate
           /\ ~switching => (outcome = "ok" /\ lo = "ok")
           /\ SetClient(IF st.raised THEN st
                        ELSE [st EXCEPT !.conns[st.connection] = after_list(@, listed)])
           /\ IF st.raised
              THEN /\ lo2 = "ok"
                   /\ pc' = "returned"
                   /\ ret' = error_return(st.error)
                   /\ available_tools' = available_tools
              ELSE IF listed.raised
              THEN /\ pc' = "returned"
                   /\ ret' = error_return(<<"list-tools-failed">>)
                   /\ available_tools' = available_tools
              ELSE /\ pc' = "tool_round"
                   /\ ret' = ret
                   /\ available_tools' =
                        prepare_tools_for_model(
                          build_available_tools(listed.tools), selected_model)
  /\ UNCHANGED <<server_name, query_messages, final_text, tool_calls, idx,
                 requests, dispatched>>
  /\ UNCHANGED providerVars

\* process_query: fragments collected from a reply
collect(frags, content) == IF content # <<>> THEN Append(frags, content) ELSE frags

\* process_query: whether the tool loop and the resume round run
has_tool_calls(calls) == calls # <<>>

\* variant: the conversation of the selection round is carried forward
new_query_messages_carried(messages, query) == messages

\* process_query: the message list of the tool round, built anew while the
\* list of the selection round (messages) is still in scope
new_query_messages(messages, query) ==
  << format_system_message(SystemMessage), format_user_message(query) >>

\* process_query: the second completion request, with the tools attached
ToolRound ==
  /\ pc = "tool_round"
  /\ LET msgs == new_query_messages(requests[1].messages, Query)
     IN  /\ requests' = generate_completion(requests, "tool", msgs, TRUE, available_tools)
         /\ \E ok \in BOOLEAN, content \in AnswerTexts, calls \in ToolCallLists :
              IF ~ok
              THEN /\ content = <<>> /\ calls = <<>>
                   /\ pc' = "returned"
                   /\ ret' = error_return(ProviderError)
                   /\ UNCHANGED <<query_messages, final_text, tool_calls, idx>>
              ELSE /\ final_text' = collect(<<>>, content)
                   /\ tool_calls' = WithIds(calls)
                   /\ IF has_tool_calls(calls)
                      THEN /\ query_messages' =
                                Append(msgs, format_assistant_message(content, WithIds(calls)))
                           /\ idx' = 1
                           /\ pc' = "exec"
                           /\ ret' = ret
                      ELSE /\ query_messages' = msgs
                           /\ idx' = 0
                           /\ pc' = "returned"
                           /\ ret' = answer_return(collect(<<>>, content))
  /\ UNCHANGED <<clientVars, server_name, available_tools, dispatched>>
  /\ UNCHANGED providerVars

\* variant: the tool result takes the place of the conversation's last message
append_result_replace(messages, m) ==
  Append(SubSeq(messages, 1, Len(messages) - 1), m)

\* process_query: query_messages.append(...) of a tool result
append_result(messages, m) == Append(messages, m)

\* process_query: one pass of the tool loop on call number idx
ExecTool ==
  /\ pc = "exec"
  /\ idx <= Len(tool_calls)
  /\ LET tc == tool_calls[idx]
     IN  IF ~json_loads_ok(tc.arguments)
         THEN /\ pc' = "returned"
              /\ ret' = error_return(<<"json-decode-error">>)
              /\ UNCHANGED <<query_messages, idx, dispatched>>
         ELSE \E o \in ToolOutcomes :
                LET r == call_tool(conns[connection], o)
                IN  /\ dispatched' = Append(dispatched,
                                        [conn |-> connection, call |-> idx,
                                         name |-> tc.name,
                                         session_raised |-> o.kind = "raise",
                                         raised |-> r.kind = "raise",
                                         error |-> IF r.kind = "raise" THEN r.text
                                                   ELSE <<>>])
                    /\ query_messages' =
                         append_result(query_messages,
                                format_tool_message(tc.id, tc.name, tool_result_content(r)))
                    /\ idx' = idx + 1
                    /\ pc' = IF idx = Len(tool_calls) THEN "resume" ELSE "exec"
                    /\ ret' = ret
  /\ UNCHANGED <<clientVars, server_name, final_text, tool_calls, available_tools,
                 requests>>
  /\ UNCHANGED providerVars

\* process_query: the final completion request, without tools
ResumeRound ==
  /\ pc = "resume"
  /\ requests' = generate_completion(requests, "resume", query_messages, FALSE, <<>>)
  /\ \E ok \in BOOLEAN, content \in AnswerTexts :
       IF ~ok
       THEN /\ content = <<>>
            /\ final_text' = final_text
            /\ ret' = partial_return(final_text, ProviderError)
       ELSE /\ final_text' = Append(final_text, content)
            /\ ret' = answer_return(Append(final_text, content))
  /\ pc' = "returned"
  /\ UNCHANGED <<clientVars, server_name, query_messages, tool_calls, idx,
                 available_tools, dispatched>>
  /\ UNCHANGED providerVars

\* CLI.run_interactive_loop: the response is printed, the conversation of the
\* query is discarded and the loop reads the next input
Prompt ==
  /\ pc = "returned"
  /\ pc' = "idle"
  /\ server_name' = None
  /\ query_messages' = <<>>
  /\ final_text' = <<>>
  /\ tool_calls' = <<>>
  /\ idx' = 0
  /\ available_tools' = <<>>
  /\ requests' = <<>>
  /\ dispatched' = <<>>
  /\ ret' = [kind |-> "none", text |-> <<>>]
  /\ UNCHANGED clientVars
  /\ UNCHANGED providerVars

Next ==
  \/ StartCli
  \/ CmdConnect
  \/ CmdQuit
  \/ Interrupt
  \/ QueryStart
  \/ SelectionRound
  \/ Switch
  \/ ToolRound
  \/ ExecTool
  \/ ResumeRound
  \/ Prompt

Spec == Init /\ [][Next]_vars

\* ---- the provider selection applied to every model name and endpoint
SelectInit ==
  /\ ClientInit
  /\ selected_model \in ModelNames
  /\ base_url \in BaseUrls
  /\ provider = None
  /\ NoTools
  /\ NoExchange
  /\ DefaultRoster

\* MCPClient._get_llm_provider_for_model: the factory picks the provider
GetProvider ==
  /\ provider = None
  /\ provider' = get_provider_for_model(selected_model, base_url)
  /\ UNCHANGED <<clientVars, queryVars, pc, ret, selected_model, base_url,
                 schemaVars, adapterVars, rosterVars>>

SelectNext == GetProvider

SelectSpec == SelectInit /\ [][SelectNext]_vars

\* ---- the tool definitions of one query, from the session's listing to
\* ---- the adapter's payload, for every schema, transport and model name
ToolsInit ==
  /\ ClientInit
  /\ selected_model \in TargetModels
  /\ base_url \in {NoUrl, DefaultBaseUrl}
  /\ provider = None
  /\ session_tools \in [type : {"stdio", "sse", "command"},
                        tools : SessionToolLists]
  /\ listed_tools = <<>>
  /\ payload_tools = <<>>
  /\ NoExchange
  /\ DefaultRoster

\* connection.list_tools()
ListTools ==
  /\ pc = "start"
  /\ listed_tools' = connection_tools(session_tools.type, session_tools.tools)
  /\ pc' = "listed"
  /\ UNCHANGED <<clientVars, queryVars, ret, selected_model, base_url, provider,
                 session_tools, payload_tools, adapterVars, rosterVars>>

\* process_query: available_tools is built and prepared for the model
PrepareTools ==
  /\ pc = "listed"
  /\ available_tools' =
       prepare_tools_for_model(build_available_tools(listed_tools),
                               selected_model)
  /\ pc' = "prepared"
  /\ UNCHANGED <<clientVars, server_name, query_messages, final_text,
                 tool_calls, idx, requests, dispatched, ret, selected_model,
                 base_url, provider, schemaVars, adapterVars, rosterVars>>

\* generate_completion(messages, model, tools=available_tools) of the
\* provider the factory picks: the adapter builds its payload
SendTools ==
  /\ pc = "prepared"
  /\ provider' = get_provider_for_model(selected_model, base_url)
  /\ payload_tools' = adapter_tools(provider', available_tools)
  /\ pc' = "sent"
  /\ UNCHANGED <<clientVars, queryVars, ret, selected_model, base_url,
                 session_tools, listed_tools, adapterVars, rosterVars>>

ToolsNext == ListTools \/ PrepareTools \/ SendTools

ToolsSpec == ToolsInit /\ [][ToolsNext]_vars

\* ---- one exchange of an adapter: the payload it builds from a canonical
\* ---- message list and the completion it returns for the vendor's response
AdapterInit ==
  /\ connection = 0
  /\ current_server = None
  /\ exit_stack = 1
  /\ stacks = << <<>> >>
  /\ conns = <<>>
  /\ closed = <<>>
  /\ pc = "start"
  /\ ret = [kind |-> "none", text |-> <<>>]
  /\ selected_model = DefaultModel
  /\ base_url = DefaultBaseUrl
  /\ NoTools
  /\ DefaultRoster
  /\ vendor_response \in VendorResponses
  /\ provider = vendor_response.vendor
  /\ payload_messages = [system |-> <<>>, messages |-> <<>>]
  /\ completion = [raised |-> FALSE, content |-> <<>>, tool_calls |-> <<>>]
  /\ \E ms \in MessageLists :
       /\ query_messages = ms
       /\ server_name = None /\ final_text = <<>> /\ tool_calls = <<>>
       /\ idx = 0 /\ available_tools = <<>> /\ requests = <<>>
       /\ dispatched = <<>>

\* generate_completion: the payload is built and posted
BuildPayload ==
  /\ pc = "start"
  /\ payload_messages' = adapter_messages(provider, query_messages)
  /\ pc' = "posted"
  /\ UNCHANGED <<clientVars, queryVars, ret, selected_model, base_url, provider,
                 schemaVars, vendor_response, completion, rosterVars>>

\* generate_completion: the response is converted and returned
ReadResponse ==
  /\ pc = "posted"
  /\ completion' = adapter_completion(vendor_response)
  /\ pc' = "decoded"
  /\ UNCHANGED <<clientVars, queryVars, ret, selected_model, base_url, provider,
                 schemaVars, payload_messages, vendor_response, rosterVars>>

AdapterNext == BuildPayload \/ ReadResponse

AdapterSpec == AdapterInit /\ [][AdapterNext]_vars

\* ---- the roster of every configuration, and the resolution of server
\* ---- names against it
RosterInit ==
  /\ ClientInit
  /\ selected_model = DefaultModel
  /\ base_url = DefaultBaseUrl
  /\ provider = None
  /\ NoTools
  /\ NoExchange
  /\ config \in Configs
  /\ servers = <<>>

\* MCPClient.__init__: self.servers = find_server_instances(self.config)
LoadServers ==
  /\ pc = "start"
  /\ servers' = find_server_instances(config)
  /\ pc' = "loaded"
  /\ UNCHANGED <<clientVars, queryVars, ret, selected_model, base_url, provider,
                 schemaVars, adapterVars, config>>

\* MCPClient.connect_to_server(server_name) up to the creation of the
\* connection object: the default name, the roster check, current_server,
\* create_server_connection
ResolveServer ==
  /\ pc = "loaded"
  /\ Len(conns) < MaxConns
  /\ \E name \in {keys(servers)[i] : i \in 1..Len(servers)} \cup {"nosuch", None} :
       LET target == IF name # None THEN name
                     ELSE IF config.default # None THEN config.default
                     ELSE IF servers # <<>> THEN servers[1].name
                     ELSE None
       IN  IF target = None
           THEN /\ ret' = [kind |-> "no_default", text |-> <<>>]
                /\ UNCHANGED <<connection, current_server, conns>>
           ELSE IF ~in_roster(servers, target)
           THEN /\ ret' = [kind |-> "unknown_server",
                           text |-> <<target>> \o JoinComma(keys(servers))]
                /\ UNCHANGED <<connection, current_server, conns>>
           ELSE LET class == create_server_connection(server_config(servers, target))
                IN  /\ current_server' = target
                    /\ IF class = "ValueError"
                       THEN /\ ret' = [kind |-> "unsupported_type",
                                       text |-> <<server_config(servers, target).type>>]
                            /\ UNCHANGED <<connection, conns>>
                       ELSE /\ ret' = [kind |-> "created", text |-> <<class>>]
                            /\ conns' = Append(conns, NewConnection(target, exit_stack))
                            /\ connection' = Len(conns) + 1
  /\ pc' = "loaded"
  /\ UNCHANGED <<exit_stack, stacks, closed, queryVars, selected_model, base_url,
                 provider, schemaVars, adapterVars, rosterVars>>

RosterNext == LoadServers \/ ResolveServer

RosterSpec == RosterInit /\ [][RosterNext]_vars

\* ------------------------------------------------------------- claims
Connected == {i \in 1..Len(conns) : ConnState(conns[i]) = "Connected"}

\* a step of process_query that completes a server switch
QuerySwitchStep ==
  /\ pc = "switch"
  /\ current_server # server_name
  /\ pc' = "tool_round"

\* a step of the connect command that completes a server switch
CmdSwitchStep ==
  /\ pc = "idle"
  /\ pc' = "idle"
  /\ ret'.kind = "cmd_connected"

\* a step of the connect command that reports an unknown server name
CmdUnknownStep ==
  /\ pc = "idle"
  /\ pc' = "idle"
  /\ ret'.kind = "cmd_error"
  /\ ret'.text # <<>>
  /\ ret'.text[1] = "unknown-server"

\* C1: no state is reachable in which two transports opened by the engine
\* are live at once: a switch tears the previous transport down before the
\* new connection is connected.
C1_AtMostOneLiveTransport == Cardinality(LiveConns) <= 1

\* C2: once a server switch has completed, exactly one Connection is
\* Connected and no other Connection is in a live state.
C2_SwitchLeavesOneConnected ==
  [][(QuerySwitchStep \/ CmdSwitchStep) =>
       /\ Cardinality(Connected') = 1
       /\ LiveConns' = Connected']_vars

\* C3: the connect command with a name that is not in the roster reports the
\* error and leaves the previously active Connection Connected and unchanged
\* (same connection object, transport still open, same current server).
C3_UnknownNameKeepsConnection ==
  [][(CmdUnknownStep /\ connection # 0 /\ connection \in Connected) =>
       /\ connection' = connection
       /\ conns' = conns
       /\ current_server' = current_server]_vars

\* ---- helpers of the claims below
ResumeRequests == {i \in 1..Len(requests) : requests[i].round = "resume"}

AllArgsWellFormed ==
  \A i \in 1..Len(tool_calls) : json_loads_ok(tool_calls[i].arguments)

SomeCallRaised == \E k \in 1..Len(dispatched) : dispatched[k].raised

\* sub occurs in text as a contiguous run
Contains(text, sub) ==
  \E p \in 0..(Len(text) - Len(sub)) : SubSeq(text, p + 1, p + Len(sub)) = sub

\* the error note appended when the resume completion fails
ResumeNote == <<"\n", "\n", "resume-error:", " ">> \o ProviderError

\* the query returned without failing
QueryAnswered == pc = "returned" /\ ret.kind \in {"answer", "partial"}

\* C4: the tool calls of the reply are invoked on the active Connection one
\* at a time in the order received; after the loop the conversation holds,
\* after the assistant message carrying the calls, exactly one tool-result
\* message per call, in call order, each with the id and tool name of its call.
C4_ToolResultsInOrder ==
  pc \in {"exec", "resume"} =>
    LET k == idx - 1
    IN  /\ pc = "resume" => k = Len(tool_calls)
        /\ Len(query_messages) = 3 + k
        /\ query_messages[3].role = "assistant"
        /\ query_messages[3].tool_calls = tool_calls
        /\ Len(dispatched) = k
        /\ \A i \in 1..k :
             /\ dispatched[i].call = i
             /\ dispatched[i].conn = connection
             /\ dispatched[i].name = tool_calls[i].name
             /\ query_messages[3 + i].role = "tool"
             /\ query_messages[3 + i].tool_call_id = tool_calls[i].id
             /\ query_messages[3 + i].name = tool_calls[i].name

C4_Witness ==
  /\ pc = "resume"
  /\ Len(tool_calls) >= 2
  /\ Len(dispatched) = Len(tool_calls)

\* C5: when call_tool raises for a tool call, the content of its tool-result
\* message is exactly the JSON text {"error": "<message>"}, and the resume
\* round still runs.
C5_ErrorContentIsJson ==
  /\ \A i \in 1..Len(dispatched) :
       dispatched[i].raised =>
         query_messages[3 + i].content = json_error_dict(dispatched[i].error)
  /\ (pc = "returned" /\ SomeCallRaised) => ResumeRequests # {}

\* C6 as stated: for every reply with n tool calls where call k's call_tool
\* raises, calls k+1..n are still invoked in order, n tool-result messages are
\* appended and the failure text of call k is in the conversation sent in the
\* resume completion.
C6_RaiseNeverAborts ==
  (pc = "returned" /\ SomeCallRaised) =>
    /\ Len(dispatched) = Len(tool_calls)
    /\ \A i \in 1..Len(dispatched) : dispatched[i].call = i
    /\ Len(query_messages) = 3 + Len(tool_calls)
    /\ ResumeRequests # {}
    /\ \A r \in ResumeRequests : \A k \in 1..Len(dispatched) :
         dispatched[k].raised =>
           /\ Len(requests[r].messages) = 3 + Len(tool_calls)
           /\ Contains(requests[r].messages[3 + k].content, dispatched[k].error)

\* C6 amended: the same, for replies whose tool calls all carry arguments
\* that decode as JSON.
C6_RaiseNeverAbortsWellFormed == AllArgsWellFormed => C6_RaiseNeverAborts

C6_Witness ==
  /\ pc = "returned"
  /\ Len(tool_calls) >= 2
  /\ AllArgsWellFormed
  /\ Len(dispatched) = Len(tool_calls)
  /\ dispatched[1].raised
  /\ ResumeRequests # {}

\* the parts of C7 that do not depend on when the resume round runs: it is
\* sent without tools, and its failure returns the collected text followed by
\* the error note instead of failing the query
C7_ResumeShape ==
  pc = "returned" =>
    /\ \A r \in ResumeRequests :
         ~requests[r].tools_given /\ requests[r].tools = <<>>
    /\ ResumeRequests # {} => ret.kind \in {"answer", "partial"}
    /\ ret.kind = "partial" =>
         LET c == query_messages[3].content
         IN  /\ ResumeRequests # {}
             /\ SubSeq(ret.text, 1, Len(c)) = c
             /\ SubSeq(ret.text, Len(c) + 1, Len(ret.text)) = ResumeNote

\* C7 as stated: the resume completion is requested if and only if the
\* tool-round reply contained at least one tool call; it carries no tools;
\* if it fails the query returns the collected text plus an error note.
C7_ResumeIffToolCalls ==
  /\ pc = "returned" => (ResumeRequests # {} <=> tool_calls # <<>>)
  /\ C7_ResumeShape

\* C7 amended: the resume completion is requested if and only if the reply
\* contained at least one tool call and the arguments of every call decoded
\* as JSON; the rest as stated.
C7_ResumeIffLoopCompleted ==
  /\ pc = "returned" =>
       (ResumeRequests # {} <=> (tool_calls # <<>> /\ AllArgsWellFormed))
  /\ C7_ResumeShape

C7_Witness ==
  /\ pc = "returned"
  /\ ret.kind = "partial"
  /\ tool_calls # <<>>
  /\ query_messages[3].content # <<>>

\* C8: every query that does not fail sends the selection request and the
\* tool-round request, also when no server is named, no tool is called and
\* the tool set is empty; it sends exactly 2 completion requests when no tool
\* is called and exactly 3 otherwise.
C8_BothRoundsAlways ==
  QueryAnswered =>
    /\ Len(requests) >= 2
    /\ requests[1].round = "select"
    /\ requests[2].round = "tool"
    /\ requests[2].tools_given
    /\ Len(requests) = IF dispatched = <<>> THEN 2 ELSE 3

C8_Witness ==
  /\ QueryAnswered
  /\ Len(requests) = 2
  /\ requests[2].tools = <<>>
  /\ tool_calls = <<>>

\* C9: the answer returned by process_query never contains the literal
\* directive, whichever round's reply the directive appears in.
C9_AnswerNeverHasDirective == QueryAnswered => ~HasDirective(ret.text)

\* C10: nothing is retried: each completion round of a query sends exactly
\* one provider request, each tool call is dispatched at most once, and a
\* failed provider request ends the round as a failure with no second request.
C10_NoRetry ==
  /\ Len(requests) <= 3
  /\ \A i \in 1..Len(requests) :
       requests[i].round = <<"select", "tool", "resume">>[i]
  /\ \A i, j \in 1..Len(dispatched) :
       dispatched[i].call = dispatched[j].call => i = j
  /\ (pc = "returned" /\ ret.kind = "error" /\ Contains(ret.text, ProviderError)) =>
       Len(requests) \in {1, 2}
  /\ (pc = "returned" /\ Len(requests) = 1) => ret.kind = "error"

C10_Witness ==
  /\ pc = "returned"
  /\ ret.kind = "partial"
  /\ Len(requests) = 3
  /\ Len(dispatched) >= 2

\* ---- helpers of the claims on failures
\* the positions of the task inside process_query
QueryPcs == {"select", "switch", "tool_round", "exec", "resume"}

\* distance of a position from the return of process_query
Rank(p) ==
  CASE p = "idle" -> 7
    [] p = "select" -> 6
    [] p = "switch" -> 5
    [] p = "tool_round" -> 4
    [] p = "exec" -> 3
    [] p = "resume" -> 2
    [] p = "returned" -> 1
    [] OTHER -> 0

\* a step taken by process_query
QueryStep == pc \in QueryPcs \/ (pc = "idle" /\ pc' \in QueryPcs \cup {"returned"})

\* r is the single message text process_query returns for the error e
IsErrorReturn(r, e) ==
  r.kind = "error" /\ e # <<>> /\ r.text = <<"query-error:", " ">> \o e

\* C11: process_query never propagates an error to the interactive caller:
\* every step of it moves towards its return and never leaves the CLI loop,
\* and a failed connection, provider initialisation, selection or tool-round
\* completion, tool listing or argument decoding ends it with a single
\* message text that describes the error.
C11_NeverPropagates ==
  [][QueryStep =>
       /\ pc' \in QueryPcs \cup {"returned"}
       /\ \/ Rank(pc') < Rank(pc)
          \/ pc = "exec" /\ pc' = "exec" /\ idx' = idx + 1 /\ idx' <= Len(tool_calls)
       /\ pc' = "returned" =>
            /\ ret'.kind \in {"answer", "partial", "error"}
            /\ ret'.kind = "error" =>
                 \E e \in {<<"connect-failed">>, <<"list-tools-failed">>, InitError,
                            ProviderError, <<"json-decode-error">>} :
                   IsErrorReturn(ret', e)
       \* the connection made for the query did not come up
       /\ (pc = "idle" /\ connection = 0 /\
           ConnState(conns'[connection']) # "Connected") =>
            (pc' = "returned" /\ IsErrorReturn(ret', <<"connect-failed">>))
       /\ (pc = "switch" /\ connection' # connection /\
           ConnState(conns'[connection']) # "Connected") =>
            (pc' = "returned" /\ IsErrorReturn(ret', <<"connect-failed">>))
       \* provider initialisation, tool listing
       /\ (pc = "idle" /\ pc' = "returned") => ret'.kind = "error"
       /\ (pc = "switch" /\ pc' = "returned") => ret'.kind = "error"
       \* the completion request of the selection round or the tool round
       /\ (pc = "select" /\ pc' # "switch") =>
            (pc' = "returned" /\ IsErrorReturn(ret', ProviderError))
       /\ (pc = "tool_round" /\ pc' = "returned" /\ ret'.kind # "answer") =>
            IsErrorReturn(ret', ProviderError)
       \* argument decoding
       /\ (pc = "exec" /\ ~json_loads_ok(tool_calls[idx].arguments)) =>
            (pc' = "returned" /\ IsErrorReturn(ret', <<"json-decode-error">>))]_vars

C11_Witness ==
  /\ pc = "returned"
  /\ IsErrorReturn(ret, <<"json-decode-error">>)
  /\ Len(dispatched) >= 1
  /\ connection # 0

\* ---- helpers of the claims on release
\* how many times the context r of connection i was exited
Closes(i, r) == Cardinality({k \in 1..Len(closed) : closed[k] = <<i, r>>})

\* position of a context in the order of acquisition on one exit stack:
\* connections are created in index order, the transport before the session
Acquired(e) == 2 * e[1] + (IF e[2] = "session" THEN 1 ELSE 0)

\* C12: release closes the transport of a connection exactly once, also when
\* connect() only partially succeeded, and running cleanup again (quit or
\* interrupt, then the shutdown path) closes no transport a second time.
C12_ReleaseClosesOnce ==
  /\ \A i \in 1..Len(conns) :
       /\ Closes(i, "transport") <= 1
       /\ Closes(i, "session") <= 1
       /\ conns[i].transport = "closed" <=> Closes(i, "transport") = 1
       /\ conns[i].transport = "none" <=> Closes(i, "transport") = 0 /\ ~Live(conns[i])
  /\ pc = "exited" =>
       /\ \A i \in 1..Len(conns) :
            conns[i].transport # "none" => Closes(i, "transport") = 1
       /\ stacks[exit_stack] = <<>>
       /\ ret.kind \in {"bye", "interrupted", "error"}

C12_Witness ==
  /\ pc = "exited"
  /\ ret.kind \in {"bye", "interrupted"}
  /\ \E i \in 1..Len(conns) :
       /\ conns[i].transport = "closed"
       /\ ~conns[i].session
       /\ Closes(i, "transport") = 1
  /\ \E j \in 1..Len(conns) :
       /\ conns[j].session /\ Closes(j, "session") = 1

\* C13: the resources of a connection are released in strict reverse order
\* of acquisition; a connection discarded by a switch has no running
\* subprocess; after cleanup no transport or subprocess opened during the
\* client's lifetime is open.
C13_ReverseOrderRelease ==
  /\ \A a, b \in 1..Len(closed) :
       (a < b /\ conns[closed[a][1]].stack = conns[closed[b][1]].stack) =>
         Acquired(closed[a]) > Acquired(closed[b])
  /\ \A i \in 1..Len(conns) :
       (i # connection /\ ServerType(conns[i].server) # "sse") => ~Live(conns[i])
  /\ pc = "exited" => LiveConns = {}

\* C14: on every transport variant list_tools answers from the cached tool
\* set when one is present, so that one connection sends at most one
\* tool-listing query to its session however often list_tools is called, and
\* a connection made by a reconnect starts with an empty cache.
C14_AtMostOneListingQuery ==
  \A i \in 1..Len(conns) :
    /\ conns[i].list_queries <= 1
    /\ conns[i].list_queries = 0 => conns[i].tools_cache = "none"

\* ---- helpers of the claims on tools
\* the names of a list of tool descriptors
Names(tools) == [i \in 1..Len(tools) |-> tools[i].name]

\* the names of the tool definitions attached to the tool round
AvailableNames == [i \in 1..Len(available_tools) |-> available_tools[i].function.name]

ActiveType == ServerType(conns[connection].server)

\* C15: on a connected HTTP-streaming connection a failed tool-listing query
\* makes neither list_tools nor connect fail: the caller gets the two
\* built-in default tools geocode and weather; on the local-process and the
\* spawned-command variant a failed tool-listing query reaches the caller as
\* a failure.
C15_SseListingFallsBack ==
  /\ \A i \in 1..Len(conns) :
       LET c == conns[i]
           failing == list_tools(c, "fail")
       IN  c.session =>
             IF ServerType(c.server) = "sse"
             THEN /\ ~failing.raised
                  /\ failing.queried =>
                       /\ Names(failing.tools) = <<"geocode", "weather">>
                       /\ failing.tools = default_tools
                  /\ c.tools_cache = "default" => c.list_queries = 1
             ELSE /\ failing.queried
                  /\ failing.raised
                  /\ \A lo \in ListOutcomes \ {"fail"} : ~list_tools(c, lo).raised
  /\ (pc = "returned" /\ ret = error_return(<<"list-tools-failed">>)) =>
       (connection # 0 /\ (ActiveType # "sse" \/ ~conns[connection].session))
  /\ (pc = "tool_round" /\ ActiveType = "sse"
        /\ conns[connection].tools_cache = "default") =>
       AvailableNames = <<"geocode", "weather">>

C15_Witness ==
  /\ pc = "tool_round"
  /\ ActiveType = "sse"
  /\ ConnState(conns[connection]) = "Connected"
  /\ conns[connection].tools_cache = "default"
  /\ AvailableNames = <<"geocode", "weather">>
  /\ \E i \in 1..Len(conns) :
       ServerType(conns[i].server) # "sse" /\ conns[i].session

\* C16: call_tool fails with ToolNotFound when the name was never listed by
\* the connection, and a transport error during call_tool reaches the caller
\* as a failure on all three variants.
C16_CallToolFailures ==
  \A k \in 1..Len(dispatched) :
    LET d == dispatched[k]
    IN  /\ (\A i \in 1..Len(available_tools) : AvailableNames[i] # d.name) =>
             (d.raised /\ d.error = <<"ToolNotFound">>)
        /\ d.session_raised => d.raised

\* ---- helpers of the claims on the provider selection
\* an endpoint URL is present
UrlPresent == Truthy(base_url)

\* the vendors one of whose official domains the hostname of the endpoint matches
MatchingVendors ==
  IF UrlPresent /\ base_url.parse
  THEN {v \in VendorSet :
          \E d \in official_endpoints(v) : domain_in(d, LowerAll(netloc(base_url)))}
  ELSE {}

\* the vendor the fixed prefix map assigns to a model name, case-insensitively
PrefixVendor(name) ==
  LET first == IF name = <<>> THEN "" ELSE name[1]
  IN  IF first \in {"gpt", "GPT"} THEN "openai"
      ELSE IF first \in {"claude", "Claude"} THEN "anthropic"
      ELSE IF first \in {"gemini", "text-bison", "palm"} THEN "google"
      ELSE "openai"

C18_UnmatchedEndpointIsOpenAI ==
  (provider # None /\ UrlPresent /\ MatchingVendors = {}) => provider = "openai"

\* C18 amended: the same for an endpoint URL that urlparse accepts.
C18_ParsedUnmatchedEndpointIsOpenAI ==
  (provider # None /\ UrlPresent /\ base_url.parse /\ MatchingVendors = {}) =>
    provider = "openai"

C18_Witness ==
  /\ provider = "openai"
  /\ selected_model = <<"claude", "-3-5-sonnet">>
  /\ base_url = Url(<<"my-proxy.example.com">>)

\* C19: when no endpoint URL is present the vendor is the one the prefix map
\* assigns to the model-name prefix, case-insensitively, and the OpenAI-style
\* adapter when no prefix matches; the result is always one of the three
\* adapters; with an endpoint the model name has no say in the result.
C19_NameRuleLast ==
  provider # None =>
    /\ provider \in VendorSet
    /\ ~UrlPresent => provider = PrefixVendor(selected_model)
    /\ (UrlPresent /\ base_url.parse) =>
         \A m \in ModelNames : get_provider_for_model(m, base_url) = provider

C19_Witness ==
  /\ provider = "anthropic"
  /\ selected_model = <<"Claude", "-3">>
  /\ base_url = NoUrl

\* ---- helpers of the claim on descriptions
\* the description the server supplied for the tool of a stored descriptor
Supplied(type, name) ==
  LET served == ServedTools(type)
  IN  {served[j].description : j \in {k \in 1..Len(served) : served[k].name = name}}

\* the stored description d of a tool whose server-supplied description is raw
CappedFrom(d, raw) ==
  IF DescLen(raw) > 1000
  THEN DescLen(d) = 1000 /\ d.marker = 3 /\ d.body = 997
  ELSE d = raw

\* C20: for every tool descriptor list_tools returns on any transport
\* variant, a server-supplied description longer than 1000 characters is
\* stored with exactly 1000 characters ending with the 3-character marker,
\* and one of at most 1000 characters is stored unchanged.
C20_DescriptionsCapped ==
  \A i \in 1..Len(available_tools) :
    \A raw \in Supplied(ActiveType, available_tools[i].function.name) :
      CappedFrom(available_tools[i].function.description, raw)

\* ---- tool definitions sent to the model
\* the schema the server supplied for the i-th tool of the listing
SuppliedSchema(i) == session_tools.tools[i].inputSchema

\* the schema of the i-th tool entry of the adapter's payload
SentSchema(i) == payload_schema(provider, payload_tools[i])

\* schema `sent` is the normal form of schema `supplied`: the same schema
\* when it has a "type" key, else exactly the three keys type, properties
\* and required with the supplied schema under "properties"
IsNormalFormOf(sent, supplied) ==
  IF \E j \in 1..Len(supplied.of) : supplied.of[j].key = "type"
  THEN sent = supplied
  ELSE /\ sent.kind = "dict"
       /\ Len(sent.of) = 3
       /\ {sent.of[j].key : j \in 1..3} = {"type", "properties", "required"}
       /\ get(sent, "type") = Scalar("object")
       /\ get(sent, "properties") = supplied
       /\ get(sent, "required") = List(<<>>)

RECURSIVE HasUnsupportedKey(_)
HasUnsupportedKey(v) ==
  IF v.kind = "dict"
  THEN \E j \in 1..Len(v.of) :
         v.of[j].key \in {"$defs", "$ref", "default"}
         \/ HasUnsupportedKey(v.of[j].value)
  ELSE IF v.kind = "list"
  THEN \E j \in 1..Len(v.of) : HasUnsupportedKey(v.of[j])
  ELSE FALSE

\* the JSON value v without the keys $defs, $ref, default of its objects
\* at every depth, everything else kept in place
RECURSIVE WithoutUnsupportedKeys(_)
RECURSIVE KeptItems(_)
KeptItems(items) ==
  IF items = <<>> THEN <<>>
  ELSE (IF Head(items).key \in {"$defs", "$ref", "default"} THEN <<>>
        ELSE << [key |-> Head(items).key,
                 value |-> WithoutUnsupportedKeys(Head(items).value)] >>)
       \o KeptItems(Tail(items))

WithoutUnsupportedKeys(v) ==
  IF v.kind = "dict" THEN [kind |-> "dict", of |-> KeptItems(v.of)]
  ELSE IF v.kind = "list"
  THEN [kind |-> "list",
        of |-> [j \in 1..Len(v.of) |-> WithoutUnsupportedKeys(v.of[j])]]
  ELSE v

\* the tools of the query have been prepared for a Gemini model
PreparedForGemini == pc \in {"prepared", "sent"} /\ is_gemini(selected_model)

\* C22: after the Gemini pre-send transform no object at any nesting depth
\* of a tool's parameter schema, inside nested objects and inside arrays,
\* has a key $defs, $ref or default, and every other key and value of the
\* schema is preserved with the same structure.
C22_GeminiSchemaStripped ==
  PreparedForGemini =>
    \A i \in 1..Len(available_tools) :
      /\ ~HasUnsupportedKey(available_tools[i].function.parameters)
      /\ available_tools[i].function.parameters =
           WithoutUnsupportedKeys(engine_schema(listed_tools[i].inputSchema))

\* the target model name contains the marker, in either case
ContainsGeminiMarker ==
  \E j \in 1..Len(selected_model) : selected_model[j] \in {"gemini", "Gemini"}

\* tool definition t is the one built from descriptor d, its parameters
\* being the schema p
BuiltFrom(t, d, p) ==
  /\ t.type = "function"
  /\ t.function.name = d.name
  /\ t.function.description = d.description
  /\ t.function.parameters = p

\* C23: the schema-stripping transform is applied exactly when the target
\* model name contains the Gemini marker: for every other model name the
\* tool list passed to the provider is the list built from the connection's
\* descriptors, for a marked name each definition carries the transformed
\* schema, and in both cases the descriptors the connection returned are
\* the ones it built from the session's listing, unmodified.
C23_StrippedIffGemini ==
  pc \in {"prepared", "sent"} =>
    /\ Len(available_tools) = Len(listed_tools)
    /\ \A i \in 1..Len(available_tools) :
         \E n \in {listed_tools[i].inputSchema,
                   object_schema(listed_tools[i].inputSchema)} :
           /\ IsNormalFormOf(n, listed_tools[i].inputSchema)
           /\ BuiltFrom(available_tools[i], listed_tools[i],
                        IF ContainsGeminiMarker
                        THEN simplify_schema_for_gemini(n) ELSE n)
    /\ listed_tools =
         connection_tools(session_tools.type, session_tools.tools)

\* a model name that contains the marker without starting with it: the
\* definition passed to the provider lost a key the descriptor still has
C23_Witness ==
  /\ pc = "sent"
  /\ selected_model = <<"models/", "gemini", "-pro">>
  /\ Len(available_tools) = 1
  /\ HasUnsupportedKey(listed_tools[1].inputSchema)
  /\ ~HasUnsupportedKey(available_tools[1].function.parameters)
  /\ listed_tools[1].inputSchema = session_tools.tools[1].inputSchema

\* ---- the adapters' requests and responses
\* the canonical messages of the exchange that are no system message
NonSystem == SelectSeq(query_messages, LAMBDA m : m.role # "system")

\* the Anthropic adapter has built its payload
AnthropicPosted == provider = "anthropic" /\ pc \in {"posted", "decoded"}

\* the system message is carried in the top-level field only, and no
\* message of the request has the role tool
SystemLiftedNoToolRole ==
  /\ \A i \in 1..Len(query_messages) :
       query_messages[i].role = "system" =>
         payload_messages.system = query_messages[i].content
  /\ \A j \in 1..Len(payload_messages.messages) :
       payload_messages.messages[j].role \in {"user", "assistant"}

\* the annotated text of tool-result message m
Annotated(m) == <<"Tool Response (", m.name, "): ">> \o m.content

RECURSIVE GroupText(_, _, _)
GroupText(ns, a, b) ==
  IF a = b
  THEN (IF ns[a].role = "tool" THEN Annotated(ns[a]) ELSE ns[a].content)
  ELSE GroupText(ns, a, b - 1) \o <<"\n\n">> \o Annotated(ns[b])

VendorCalls ==
  IF vendor_response.vendor = "anthropic" THEN vendor_response.tool_use
  ELSE IF vendor_response.vendor = "google"
  THEN IF vendor_response.candidates = <<>> THEN <<>>
       ELSE SelectSeq(vendor_response.candidates[1].parts,
                      LAMBDA p : p.type = "call")
  ELSE vendor_response.tool_calls

\* the JSON text of the arguments of a vendor entry
JsonText(entry) ==
  IF entry.input = [kind |-> "dict",
                    of |-> << [key |-> "city",
                               value |-> [kind |-> "scalar", of |-> <<"Paris">>]] >>]
  THEN "{\"city\": \"Paris\"}"
  ELSE "{}"

\* the adapter returned a completion for the response
Decoded == pc = "decoded" /\ ~completion.raised

\* C25: the Anthropic and the Gemini adapter translate the tool calls of
\* one response into canonical tool calls in response order, with the ids
\* call_0, call_1, ... that are sequential and pairwise distinct within
\* the completion, each call keeping the entry's tool name and carrying
\* its arguments JSON-encoded.
C25_SynthesizedIds ==
  (Decoded /\ provider \in {"anthropic", "google"}) =>
    LET calls == extract_tool_calls(completion)
    IN  /\ Len(calls) = Len(VendorCalls)
        /\ \A i \in 1..Len(calls) :
             /\ calls[i].id = "call_" \o ToString(i - 1)
             /\ calls[i].name = VendorCalls[i].name
             /\ calls[i].arguments = JsonText(VendorCalls[i])
        /\ \A i, j \in 1..Len(calls) : calls[i].id = calls[j].id => i = j

\* a Gemini response with a text part between two calls: the calls are
\* numbered 0 and 1
C25_Witness ==
  /\ Decoded
  /\ provider = "google"
  /\ vendor_response.candidates # <<>>
  /\ Len(vendor_response.candidates[1].parts) = 3
  /\ vendor_response.candidates[1].parts[2].type = "text"
  /\ Len(extract_tool_calls(completion)) = 2
  /\ extract_tool_calls(completion)[1].id = "call_0"
  /\ extract_tool_calls(completion)[2].id = "call_1"
  /\ extract_tool_calls(completion)[2].name = "get_alerts"
  /\ extract_tool_calls(completion)[1].arguments \in WellFormedArgs

\* the parts of the response that carry its text and its tool calls
ResponseParts ==
  IF vendor_response.vendor = "anthropic" THEN vendor_response.content
  ELSE IF vendor_response.vendor = "google"
  THEN IF vendor_response.candidates = <<>> THEN <<>>
       ELSE vendor_response.candidates[1].parts
  ELSE <<>>

\* the texts of parts ps, concatenated in order
RECURSIVE TextOf(_)
TextOf(ps) ==
  IF ps = <<>> THEN <<>>
  ELSE (IF Head(ps).type = "text" THEN Head(ps).text ELSE <<>>) \o TextOf(Tail(ps))

\* the text the vendor's response carries
OriginalText ==
  IF vendor_response.vendor = "openai" THEN vendor_response.content
  ELSE TextOf(ResponseParts)

\* the tool calls the vendor's response carries, in order: an Anthropic
\* response has them in its tool_use list or as blocks of its content
OriginalCalls ==
  IF vendor_response.vendor = "anthropic" /\ ~vendor_response.has_tool_use
  THEN SelectSeq(vendor_response.content, LAMBDA p : p.type = "call")
  ELSE VendorCalls

\* C26: for each of the three adapters, after the canonical message list
\* was encoded, decoding the vendor's response with extract_text and
\* extract_tool_calls reproduces the text and the tool calls (name and
\* arguments) the response carries, with ids unique within the completion,
\* whatever the order of the text and the tool calls among its parts.
C26_RoundTrip ==
  Decoded =>
    LET calls == extract_tool_calls(completion)
    IN  /\ extract_text(completion) = OriginalText
        /\ Len(calls) = Len(OriginalCalls)
        /\ \A i \in 1..Len(calls) :
             /\ calls[i].name = OriginalCalls[i].name
             /\ calls[i].arguments =
                  (IF vendor_response.vendor = "openai"
                   THEN OriginalCalls[i].arguments
                   ELSE JsonText(OriginalCalls[i]))
        /\ \A i, j \in 1..Len(calls) : calls[i].id = calls[j].id => i = j

\* ---- roster and resolution
\* the script files of the configured server directory
ScriptFiles ==
  IF ~config.directory.exists THEN {}
  ELSE { f \in {config.directory.files[i] : i \in 1..Len(config.directory.files)} :
           f.isfile /\ f.ext \in {".py", ".js"} }

\* the instances the configuration names
Configured == {config.instances[i] : i \in 1..Len(config.instances)}

RosterEntries == {servers[i] : i \in 1..Len(servers)}

\* C27: the roster is the set of explicitly configured instances whenever
\* at least one is configured; the server directory is scanned, and one
\* local-process config per recognizable script file (server name = file
\* stem) is synthesized, only when no instance is configured, so a roster
\* never mixes configured and discovered servers.
C27_ConfiguredElseDiscovered ==
  pc = "loaded" =>
    /\ \A i, j \in 1..Len(servers) : servers[i].name = servers[j].name => i = j
    /\ IF Configured # {}
       THEN /\ RosterEntries \subseteq Configured
            /\ {e.name : e \in RosterEntries} = {c.name : c \in Configured}
            /\ \A e \in RosterEntries :
                 \E i \in 1..Len(config.instances) :
                   /\ config.instances[i] = e
                   /\ \A j \in (i + 1)..Len(config.instances) :
                        config.instances[j].name # e.name
       ELSE /\ {e.name : e \in RosterEntries} = {f.stem : f \in ScriptFiles}
            /\ \A e \in RosterEntries :
                 /\ e.type = "stdio"
                 /\ e.script \in ScriptFiles
                 /\ e.script.stem = e.name
                 /\ e \notin ConfiguredInstances

\* instances are configured and the directory holds a script of another
\* name: the roster has the instances and not the script
C27_Witness ==
  /\ pc = "loaded"
  /\ Configured # {}
  /\ \E f \in ScriptFiles : \A e \in RosterEntries : e.name # f.stem
  /\ RosterEntries = Configured

\* the roster names
RosterNames == {servers[i].name : i \in 1..Len(servers)}

\* the type discriminator of the roster entry called name is one of the
\* three transports (an entry without discriminator is a local process)
Recognized(name) ==
  \A e \in RosterEntries :
    e.name = name => e.type \in {"stdio", "sse", "command", None}

\* C28: resolving a server name that is absent from the roster fails with
\* the unknown-server error, which lists the available names, and leaves
\* the current connection and the current server name unchanged; a roster
\* entry whose type discriminator is unrecognized fails with the
\* unsupported-type error and no connection is created.
C28_ResolutionFailures ==
  [][ (pc = "loaded" /\ pc' = "loaded" /\ ret'.kind # "no_default") =>
        LET absent == ret'.kind = "unknown_server"
            target == IF absent THEN ret'.text[1] ELSE current_server'
        IN  /\ absent <=> target \notin RosterNames
            /\ absent =>
                 /\ connection' = connection
                 /\ current_server' = current_server
                 /\ conns' = conns
                 /\ \A n \in RosterNames :
                      \E k \in 2..Len(ret'.text) : ret'.text[k] = n
            /\ (~absent /\ ~Recognized(target)) =>
                 /\ ret'.kind = "unsupported_type"
                 /\ conns' = conns
                 /\ connection' = connection
            /\ (~absent /\ Recognized(target)) =>
                 /\ ret'.kind = "created"
                 /\ Len(conns') = Len(conns) + 1
                 /\ conns'[connection'].server = target ]_vars

\* a connection exists and a name absent from a non-empty roster was
\* resolved: the error is reported and the connection is still the current
\* one
C28_Witness ==
  /\ pc = "loaded"
  /\ ret.kind = "unknown_server"
  /\ ret.text[1] = "nosuch"
  /\ Len(ret.text) > 1
  /\ connection # 0
  /\ conns[connection].server = current_server

\* ---- the spawned-command connection
\* C29: a connected spawned-command connection has registered its child
\* process for termination on the exit stack before anything else and talks
\* to the server through an HTTP-streaming connection it delegates to; it
\* never opens a byte-stream session of its own.
C29_CommandDelegatesToHttpStream ==
  \A i \in 1..Len(conns) :
    (ServerType(conns[i].server) = "command" /\ conns[i].session) =>
      /\ transport_client(ServerType(conns[i].server)) = "sse_client"
      /\ \E k \in 1..Len(stacks[conns[i].stack] \o closed) :
           /\ (stacks[conns[i].stack] \o closed)[k] = <<i, "process">>
           /\ \A j \in 1..(k - 1) : (stacks[conns[i].stack] \o closed)[j][1] # i

\* ---- the conversation of a query
IsPrefixOf(s, t) == Len(s) <= Len(t) /\ SubSeq(t, 1, Len(s)) = s

\* the two messages every conversation of a query starts with
FreshConversation ==
  << format_system_message(SystemMessage), format_user_message(Query) >>

\* C30: the conversation of a query starts from the system message and the
\* user's query alone, only grows at its end while the query runs (by the
\* assistant message carrying the calls of this query's reply, then by one
\* result per call of that reply), every request of the query carries either
\* the selection pair, the fresh pair or that conversation, and at the end of
\* the query the conversation and its requests are discarded, for every
\* sequence of queries.
C30_AppendOnlyAndDiscarded ==
  [][ /\ (pc = "returned" /\ pc' = "idle") =>
            (query_messages' = <<>> /\ requests' = <<>>)
      /\ pc = "idle" => query_messages = <<>>
      /\ (query_messages = <<>> /\ query_messages' # <<>>) =>
            /\ IsPrefixOf(FreshConversation, query_messages')
            /\ Len(query_messages') =
                  2 + (IF has_tool_calls(tool_calls') THEN 1 ELSE 0)
            /\ has_tool_calls(tool_calls') =>
                  /\ query_messages'[3].role = "assistant"
                  /\ query_messages'[3].tool_calls = tool_calls'
      /\ (query_messages # <<>> /\ ~(pc = "returned" /\ pc' = "idle")) =>
            /\ IsPrefixOf(query_messages, query_messages')
            /\ Len(query_messages') <= Len(query_messages) + 1
            /\ Len(query_messages') = Len(query_messages) + 1 =>
                  /\ pc = "exec"
                  /\ tool_calls' = tool_calls
                  /\ query_messages'[Len(query_messages')].role = "tool"
                  /\ query_messages'[Len(query_messages')].tool_call_id =
                        tool_calls[idx].id
                  /\ Len(query_messages') = 3 + idx
      /\ (requests' # requests /\ ~(pc = "returned" /\ pc' = "idle")) =>
            /\ Len(requests') = Len(requests) + 1
            /\ IsPrefixOf(requests, requests')
            /\ LET sent == requests'[Len(requests')]
               IN  /\ sent.round = "select" =>
                         /\ Len(sent.messages) = 2
                         /\ sent.messages[1].role = "system"
                         /\ sent.messages[2] = format_user_message(Query)
                   /\ sent.round = "tool" => sent.messages = FreshConversation
                   /\ sent.round = "resume" =>
                         /\ sent.messages = query_messages
                         /\ Len(sent.messages) = 3 + Len(tool_calls)
    ]_vars

\* an earlier query listed the tools of the first connection (its second
\* listing: the first follows connect); a later query, on the second
\* connection, has sent its resume request with the results of its own two
\* calls and nothing else
C30_Witness ==
  /\ pc = "returned"
  /\ connection = 2
  /\ ServerType(conns[1].server) = "stdio"
  /\ conns[1].list_queries = 2
  /\ Len(tool_calls) = 2
  /\ Len(requests) = 3
  /\ requests[3].messages = query_messages
  /\ Len(query_messages) = 5

\* ---- the order of the steps of a query
\* the steps of one query in their order: the selection request is the first
\* request, the switch follows it, the tool-round request is the second and
\* precedes every dispatch, the calls are dispatched in call order, and the
\* resume request follows the result of the last call
QueryStepsInOrder ==
  /\ (pc = "select" /\ pc' # pc) =>
        (requests = <<>> /\ dispatched = <<>> /\ Len(requests') = 1)
  /\ (pc = "switch" /\ pc' # pc) =>
        (Len(requests) = 1 /\ requests' = requests /\ dispatched' = <<>>)
  /\ (pc = "tool_round" /\ pc' # pc) =>
        /\ Len(requests) = 1 /\ Len(requests') = 2
        /\ requests'[2].round = "tool"
        /\ dispatched = <<>> /\ dispatched' = <<>>
  /\ dispatched' # dispatched =>
        /\ pc = "exec"
        /\ Len(requests) = 2 /\ requests' = requests
        /\ Len(dispatched') = Len(dispatched) + 1
        /\ dispatched'[Len(dispatched')].call = Len(dispatched) + 1
        /\ dispatched'[Len(dispatched')].name = tool_calls[Len(dispatched) + 1].name
      \/ (pc = "returned" /\ pc' = "idle")
  /\ (Len(requests') = 3) =>
        /\ Len(dispatched) = Len(tool_calls)
        /\ Len(query_messages) = 3 + Len(tool_calls)
        /\ query_messages[Len(query_messages)].role = "tool"
        /\ requests'[3].round = "resume"

\* the first step of a query
FirstStep == pc = "idle" /\ pc' \in {"select", "returned"}

\* C31: the steps of a query occur in the order selection request, switch,
\* tool-round request, calls in call order, resume request; and when a
\* query takes its first step, every step of the earlier queries has
\* finished, the teardown of the connections their switches replaced
\* included: no connection but the active one is still open.
C31_StepsInOrder ==
  [][ /\ QueryStepsInOrder
      /\ FirstStep =>
            /\ NoQuery
            /\ \A i \in LiveConns : i = connection ]_vars

\* ---- validate and switch
\* the server the claim describes for a selection reply: the directive's
\* name when the roster has it, else the current server, else the first
\* roster entry
ValidatedChoice(content, cur) ==
  IF server_match(content) # 0 /\ group1(content) \in ServerSet
  THEN group1(content)
  ELSE IF cur # None THEN cur ELSE Servers[1]

ToolRequests == {i \in 1..Len(requests) : requests[i].round = "tool"}

\* the token occurs in the content of one of the messages
Mentions(messages, token) ==
  \E i \in 1..Len(messages) : HasTok(messages[i].content, token)

\* C33: the request of the tool round carries exactly two messages, the
\* configured system message and the user's query; neither the roster text
\* of the selection round nor the directive token nor an assistant message
\* is in it, whatever the selection round replied.
C33_ToolRoundConversationFresh ==
  \A r \in ToolRequests :
    LET sent == requests[r].messages
    IN  /\ Len(sent) = 2
        /\ sent[1] = format_system_message(SystemMessage)
        /\ sent[2] = format_user_message(Query)
        /\ ~Mentions(sent, "servers:")
        /\ ~Mentions(sent, "current:")
        /\ ~Mentions(sent, Directive)
        /\ \A i \in 1..Len(sent) : sent[i].role \in {"system", "user"}

\* the selection round, whose request carried the roster text, made the
\* query switch from weather to maps, and the tool-round request was sent
C33_Witness ==
  /\ Len(requests) >= 2
  /\ requests[2].round = "tool"
  /\ Mentions(requests[1].messages, "servers:")
  /\ Len(conns) = 2
  /\ conns[1].server = "weather"
  /\ Live(conns[1])
  /\ current_server = "maps"
  /\ server_name = "maps"

\* ---- the result of a query
\* the text of the tool-round reply a and of the resume reply b, joined as
\* the claim describes
JoinedReplies(a, b) ==
  IF a = <<>> THEN b
  ELSE IF b = <<>> THEN a
  ELSE a \o <<"\n">> \o b

\* C34: a query that returns normally returns the text of the tool-round
\* reply when the reply carries no calls, and otherwise that text and the
\* text of the resume reply, in this order with one newline between them,
\* an empty text adding neither text nor newline; no text of the selection
\* reply is in the result.
C34_ResultJoinsRoundTexts ==
  [][ /\ (pc = "tool_round" /\ ret'.kind = "answer") =>
            /\ tool_calls' = <<>>
            /\ ret'.text \in AnswerTexts
            /\ ret'.text = JoinedReplies(IF final_text' = <<>> THEN <<>>
                                        ELSE final_text'[1], <<>>)
      /\ (pc = "tool_round" /\ pc' = "exec") =>
            final_text' = IF query_messages'[3].content = <<>> THEN <<>>
                          ELSE <<query_messages'[3].content>>
      /\ (pc = "resume" /\ ret'.kind = "answer") =>
            \E b \in AnswerTexts :
              /\ final_text' = Append(final_text, b)
              /\ ret'.text = JoinedReplies(query_messages[3].content, b)
      /\ ret'.kind = "answer" =>
            (~HasTok(ret'.text, "use") /\ ~HasTok(ret'.text, "now")) ]_vars

\* the tool-round reply carried text and calls, the resume reply was empty:
\* the result is the text of the tool round without a trailing newline
C34_Witness ==
  /\ pc = "returned"
  /\ ret.kind = "answer"
  /\ Len(requests) = 3
  /\ query_messages[3].content = <<"ok">>
  /\ final_text = << <<"ok">>, <<>> >>
  /\ ret.text = <<"ok">>

\* ---- the Gemini request
\* the Gemini adapter has built its payload
GooglePosted == provider = "google" /\ pc \in {"posted", "decoded"}

\* the turns of the Gemini request
Turns == payload_messages.messages

\* the text a canonical message contributes to a turn
TurnText(m) ==
  IF m.role = "system" THEN <<"[SYSTEM]">> \o m.content \o <<"[/SYSTEM]">>
  ELSE IF m.role = "tool" THEN <<"Tool Output (", m.name, "): ">> \o m.content
  ELSE m.content

\* every turn has the role user or model and one text part
UserAndModelTurnsOnly ==
  \A j \in 1..Len(Turns) :
    /\ Turns[j].role \in {"user", "model"}
    /\ Len(Turns[j].parts) = 1

\* C35 as stated: a system message becomes a user turn wrapped in the
\* markers, an assistant message a model turn, and every tool result is
\* appended as annotated text onto the last user turn, a turn being added
\* for it only while the request holds no user turn.
C35_ToolOutputsJoinLastUserTurn ==
  GooglePosted =>
    LET ms == query_messages
        fresh == {k \in 1..Len(ms) :
                    /\ ms[k].role = "tool"
                    /\ \A j \in 1..(k - 1) : ms[j].role = "assistant"}
        plain == {k \in 1..Len(ms) : ms[k].role # "tool"}
    IN  /\ UserAndModelTurnsOnly
        /\ Len(Turns) = Cardinality(plain) + Cardinality(fresh)
        /\ \A k \in 1..Len(ms) :
             \E j \in 1..Len(Turns) :
               /\ Turns[j].role = (IF ms[k].role = "assistant" THEN "model" ELSE "user")
               /\ Contains(Turns[j].parts[1].text, TurnText(ms[k]))

\* the text of the turn that starts at canonical message a and takes the
\* tool results up to b
RECURSIVE TurnGroupText(_, _, _)
TurnGroupText(ms, a, b) ==
  IF a = b THEN TurnText(ms[a])
  ELSE TurnGroupText(ms, a, b - 1) \o <<"\n\n">> \o TurnText(ms[b])

\* C35, amended: a system message becomes a user turn wrapped in the
\* markers, an assistant message a model turn, and a tool result is
\* appended as annotated text onto the turn built last when that is a user
\* turn; it becomes a new user turn when the request is still empty or the
\* turn built last is a model turn.  No turn has the role system, assistant
\* or tool.
C35_ToolOutputsJoinLastTurn ==
  GooglePosted =>
    LET ms == query_messages
        starts == {k \in 1..Len(ms) :
                     ms[k].role # "tool" \/ k = 1 \/ ms[k - 1].role = "assistant"}
        start(j) == CHOOSE k \in starts :
                      Cardinality({x \in starts : x <= k}) = j
        end(j) == IF j = Cardinality(starts) THEN Len(ms) ELSE start(j + 1) - 1
    IN  /\ UserAndModelTurnsOnly
        /\ Len(Turns) = Cardinality(starts)
        /\ \A j \in 1..Cardinality(starts) :
             /\ Turns[j].role =
                  (IF ms[start(j)].role = "assistant" THEN "model" ELSE "user")
             /\ Turns[j].parts[1].text = TurnGroupText(ms, start(j), end(j))

\* a tool result directly after the user message was appended onto that
\* user turn, behind the wrapped system turn
C35_Witness ==
  /\ GooglePosted
  /\ Len(query_messages) = 3
  /\ query_messages[1].role = "system"
  /\ query_messages[3].role = "tool"
  /\ Len(Turns) = 2
  /\ Turns[1].parts[1].text = <<"[SYSTEM]">> \o SystemMessage \o <<"[/SYSTEM]">>
  /\ Turns[2].role = "user"
  /\ Turns[2].parts[1].text =
       Query \o <<"\n\n">> \o TurnText(query_messages[3])

\* ---- the lifecycle of a connection
\* connection i existed before the step and a request was sent to its
\* session during the step
SessionTouched(i) ==
  /\ i <= Len(conns)
  /\ \/ conns'[i].list_queries > conns[i].list_queries
     \/ /\ Len(dispatched') = Len(dispatched) + 1
        /\ dispatched'[Len(dispatched')].conn = i
        /\ conns[i].session

\* C36: list_tools and call_tool reach the session of a connection only
\* while the connection is Connected (transport open, handshake done); on a
\* connection whose connect() has not completed, has failed or whose
\* resources were released they fail without a request to any session, and
\* a connection created by a step that does not end the program is queried
\* in that step only if its connect() succeeded.
C36_SessionUsedOnlyWhenConnected ==
  [][ /\ \A i \in 1..Len(conns') :
            SessionTouched(i) => ConnState(conns[i]) = "Connected"
      /\ \A i \in (Len(conns) + 1)..Len(conns') :
            (conns'[i].list_queries > 0 /\ pc' # "exited") =>
              ConnState(conns'[i]) = "Connected"
      /\ (pc = "switch" /\ pc' = "tool_round") =>
            ConnState(conns'[connection']) = "Connected" ]_vars

\* ---- the connection the engine holds
\* C37: whenever the engine holds a connection, the connection is the one
\* of the current server and has an established, handshaken session; a
\* failed connect_to_server leaves no connection without a session behind
\* under the name of the new server.
C37_HeldConnectionIsConnected ==
  connection # 0 =>
    /\ conns[connection].server = current_server
    /\ conns[connection].session
    /\ ConnState(conns[connection]) = "Connected"

\* ---- the server of the tool round
\* the names of the tool definitions
DefinitionNames(tools) == {tools[i].function.name : i \in 1..Len(tools)}

\* the names of the tools a server may list: what its session serves, and
\* for the SSE connection the predefined tools as well
ServerToolNames(s) ==
  LET served == ServedTools(ServerType(s))
  IN  {served[i].name : i \in 1..Len(served)}
        \cup (IF ServerType(s) = "sse"
              THEN {default_tools[i].name : i \in 1..Len(default_tools)}
              ELSE {})

\* the tool round of the query has begun
ToolRoundBegun ==
  pc \in {"tool_round", "exec", "resume"} \/ (pc = "returned" /\ Len(requests) >= 2)

Malformed == {i \in 1..Len(tool_calls) : tool_calls[i].arguments \in MalformedArgs}

\* the first of them
FirstMalformed == CHOOSE k \in Malformed : \A j \in Malformed : k <= j

\* C39: when the arguments of call k of the reply are not well-formed JSON
\* and no earlier call has such arguments, the calls before k are invoked in
\* order, call k and the later calls never are, no tool-result message is
\* produced for them, no resume completion is requested and the query
\* returns the top-level error message, without the text collected so far.
C39_MalformedArgumentsAbort ==
  Malformed # {} =>
    LET k == FirstMalformed
    IN  /\ Len(dispatched) <= k - 1
        /\ \A i \in 1..Len(dispatched) :
             dispatched[i].call = i /\ dispatched[i].name = tool_calls[i].name
        /\ Len(query_messages) = 3 + Len(dispatched)
        /\ ResumeRequests = {}
        /\ pc \in {"exec", "returned"}
        /\ pc = "returned" =>
             /\ Len(dispatched) = k - 1
             /\ ret.kind = "error"
             /\ Contains(ret.text, <<"json-decode-error">>)
             /\ \A i \in 1..Len(final_text) :
                  final_text[i] # <<>> => ~Contains(ret.text, final_text[i])

\* the second of two calls carried malformed arguments: the first call was
\* invoked, the query returned the error and the collected text is not in it
C39_Witness ==
  /\ pc = "returned"
  /\ Len(tool_calls) = 2
  /\ Malformed = {2}
  /\ Len(dispatched) = 1
  /\ Len(query_messages) = 4
  /\ final_text = << <<"ok">> >>
  /\ ret.kind = "error"

\* ---- the request of the resume round
\* the conversation of a resume round: system, user, the assistant message
\* with its calls, and one result per call in call order
ResumeShaped(ms) ==
  /\ Len(ms) >= 4
  /\ ms[1].role = "system" /\ ms[2].role = "user" /\ ms[3].role = "assistant"
  /\ Len(ms[3].tool_calls) = Len(ms) - 3
  /\ \A i \in 1..(Len(ms) - 3) :
       /\ ms[3 + i].role = "tool"
       /\ ms[3 + i].tool_call_id = ms[3].tool_calls[i].id

\* the text of a message of the request the adapter posted
PostedText(m) == IF provider = "google" THEN m.parts[1].text ELSE m.content

\* the annotated text of tool result m in the request of the adapter
PostedResult(m) ==
  <<(IF provider = "google" THEN "Tool Output (" ELSE "Tool Response ("),
    m.name, "): ">> \o m.content

\* the annotated results a..b joined by blank lines
RECURSIVE JoinedResults(_, _, _)
JoinedResults(ms, a, b) ==
  IF a = b THEN PostedResult(ms[a])
  ELSE JoinedResults(ms, a, b - 1) \o <<"\n\n">> \o PostedResult(ms[b])

\* C40: in the request the Anthropic and the Gemini adapter build from the
\* conversation of a resume round, the assistant turn is followed by exactly
\* one user turn, the last of the request, which holds the annotated results
\* of all calls in call order; from the assistant turn on no two
\* neighbouring turns have the same role.
C40_ResultsMergedAfterAssistant ==
  ((AnthropicPosted \/ GooglePosted) /\ ResumeShaped(query_messages)) =>
    LET posted == payload_messages.messages
        reply == IF provider = "google" THEN "model" ELSE "assistant"
        a == Len(posted) - 1
    IN  /\ Len(posted) >= 2
        /\ posted[a].role = reply
        /\ PostedText(posted[a]) = query_messages[3].content
        /\ \A j \in 1..Len(posted) : posted[j].role = reply => j = a
        /\ posted[a + 1].role = "user"
        /\ PostedText(posted[a + 1]) =
             JoinedResults(query_messages, 4, Len(query_messages))
        /\ \A j \in a..(Len(posted) - 1) : posted[j].role # posted[j + 1].role

\* the Gemini adapter posted the conversation of a resume round with two
\* calls: both results are in the one user turn after the model turn
C40_Witness ==
  /\ GooglePosted
  /\ ResumeShaped(query_messages)
  /\ Len(query_messages) = 5
  /\ Len(payload_messages.messages) = 4
  /\ payload_messages.messages[3].role = "model"
  /\ payload_messages.messages[4].role = "user"
  /\ Contains(payload_messages.messages[4].parts[1].text, <<"Tool Output (", "get_alerts", "): ">>)

====
